---- MODULE Spec2Model ----
(***************************************************************************)
(* Pit-Wall-Pro: the championship points and standings reconstruction of   *)
(* src/src/f1_webapp/api/app.py (GET /standings/complete/{year}), over the *)
(* rows of the relational store (races, race_sessions, session_results).   *)
(*                                                                         *)
(* The store is modelled for one season: `races` and `session_results`     *)
(* hold the rows that the handler's "WHERE r.year = ?" selects.  Points    *)
(* are whole numbers, as in get_complete_standings, which never divides.   *)
(***************************************************************************)
EXTENDS Integers, Sequences, FiniteSets, TLC

VARIABLES
    year,             \* the season: the {year} path parameter, and r.year of the rows
    races,            \* rows of table races for that year
    session_results,  \* rows of session_results joined to race_sessions/races/teams
    response,         \* what get_complete_standings returned (NoResponse before the call)
    entry,            \* the single result entry given to the points rules
    awarded,          \* what the points rules computed for `entry`
    profile,          \* what get_driver_profile returned (NoProfile before the call)
    season_drivers,   \* what get_drivers_by_season returned (NoSeasonDrivers before the call)
    schedule,         \* what get_schedule returned (NoSchedule before the call)
    driver_points,    \* the rows of get_driver_profile's driver_points query
    championship_position,  \* the championship positions computed from driver_points
    request,          \* the query parameters of the request the webapp is answering
    reply,            \* what the webapp answered to `request` (NoReply before)
    espn_requests,    \* how many requests have been sent to the ESPN API
    fastf1_practice_results,  \* the webapp's table fastf1_practice_results
    now,              \* datetime.utcnow(), in whole hours
    driver_standings, \* backend table driver_standings
    sessions,         \* backend table sessions
    lap_times,        \* backend table lap_times
    telemetry_data,   \* backend table telemetry_data
    handlers          \* the backend's running request handlers

vars == <<year, races, session_results, response, entry, awarded,
          profile, season_drivers, schedule, driver_points, championship_position,
          request, reply, espn_requests, fastf1_practice_results,
          now, driver_standings, sessions, lap_times, telemetry_data, handlers>>

\* The variables of the other endpoints and of the championship position query.
laterVars == <<profile, season_drivers, schedule, driver_points, championship_position>>

\* The variables of the ESPN- and FastF1-backed endpoints and of the backend's
\* cache.
espnVars == <<request, reply, espn_requests, fastf1_practice_results>>
cacheVars == <<now, driver_standings, sessions, lap_times, telemetry_data, handlers>>

\* The variables of the results database and of the endpoints reading it.
storeVars == <<year, races, session_results, response, entry, awarded, laterVars>>

\* Before any request to the ESPN-backed endpoints or to the backend: nothing
\* asked, nothing answered, empty cache tables, no handler running.
NoRequest == [type |-> "None"]
NoReply == [status |-> 0]
Idle ==
    /\ request = NoRequest
    /\ reply = NoReply
    /\ espn_requests = 0
    /\ fastf1_practice_results = {}
    /\ now = 0
    /\ driver_standings = {}
    /\ sessions = {}
    /\ lap_times = {}
    /\ telemetry_data = {}
    /\ handlers = <<>>

---------------------------------------------------------------------------
(* Values *)

\* SQL NULL / Python None of a numeric column or field.
NULL == -1
\* SQL NULL / Python None of a text field.
None == "None"
\* A position stored as text that is no number: populate_all_races.py writes
\* competitor.get('order') as it comes, and SQLite keeps such a value as text.
DNF == -2
\* The characters of that text, by their codes (digits are the values 0..9).
DNFText == <<68, 78, 70>>

\* Drivers, in the order of d.display_name; the id doubles as d.abbreviation.
DriverOrder == <<"ALO", "BOT">>
Drivers == {DriverOrder[i] : i \in 1..Len(DriverOrder)}
\* Teams, in the order of t.display_name.
TeamOrder == <<"Ferrari", "McLaren">>
Teams == {TeamOrder[i] : i \in 1..Len(TeamOrder)}

\* rs.session_type values, in their collation order (ORDER BY rs.session_type).
SessionOrder == <<"Qualifying", "Race", "Sprint Race">>
SessionTypes == {SessionOrder[i] : i \in 1..Len(SessionOrder)}

\* The seasons explored by the season report.
Years == {1955, 2021}
\* The races rows a season may hold (round_number is unique within a year).
Calendar ==
    { [round_number |-> 1,  event_name |-> "Bahrain Grand Prix", country |-> "Bahrain", has_sprint |-> 0],
      [round_number |-> 12, event_name |-> "Belgian Grand Prix", country |-> "Belgium", has_sprint |-> 1] }
\* Finishing positions a stored result may carry, besides NULL.
Positions == {1, 11}
\* The store holds at most MaxRows session_results rows.
MaxRows == 2

\* Years, positions of the single-entry points rules.
PointYears == {1949, 1950, 1955, 1959, 1960, 1961, 1984, 1990, 1991, 2002, 2003,
               2009, 2010, 2018, 2019, 2020, 2021, 2023}
MaxPosition == 12

IndexOf(seq, x) == CHOOSE i \in 1..Len(seq) : seq[i] = x

\* dict.get(key, default) on a dict modelled as a function.
DictGet(d, k, default) == IF k \in DOMAIN d THEN d[k] ELSE default

\* A test that takes None for a position.
TruthyWithNone(v) == v /= 0

\* Python truthiness of a nullable integer: None and 0 are falsy.
Truthy(v) == v /= NULL /\ v /= 0

---------------------------------------------------------------------------
(* Historical rules table *)

\* A band boundary off by one year.
get_points_system_late_2010(y) ==
    IF y > 2010 THEN <<25, 18, 15, 12, 10, 8, 6, 4, 2, 1>>
    ELSE IF y >= 2003 THEN <<10, 8, 6, 5, 4, 3, 2, 1>>
    ELSE IF y >= 1991 THEN <<10, 6, 4, 3, 2, 1>>
    ELSE IF y >= 1961 THEN <<9, 6, 4, 3, 2, 1>>
    ELSE IF y = 1960 THEN <<8, 6, 4, 3, 2, 1>>
    ELSE <<8, 6, 4, 3, 2>>

get_points_system(y) ==
    IF y >= 2010 THEN <<25, 18, 15, 12, 10, 8, 6, 4, 2, 1>>
    ELSE IF y >= 2003 THEN <<10, 8, 6, 5, 4, 3, 2, 1>>
    ELSE IF y >= 1991 THEN <<10, 6, 4, 3, 2, 1>>
    ELSE IF y >= 1961 THEN <<9, 6, 4, 3, 2, 1>>
    ELSE IF y = 1960 THEN <<8, 6, 4, 3, 2, 1>>
    ELSE <<8, 6, 4, 3, 2>>

has_fastest_lap_point(y) == y <= 1959 \/ y >= 2019

\* The sprint table without its year gate.
get_sprint_points_system_ungated(y) == <<8, 7, 6, 5, 4, 3, 2, 1>>

get_sprint_points_system(y) ==
    IF y >= 2021 THEN <<8, 7, 6, 5, 4, 3, 2, 1>> ELSE <<>>

\* points_system.get(position, 0)
BasePoints(y, position) == DictGet(get_points_system(y), position, 0)

\* The top-10 condition applied in every year.
RacePointsTopTenAlways(y, position, fastest_lap) ==
    LET race_points == BasePoints(y, position)
    IN  IF has_fastest_lap_point(y) /\ fastest_lap /\ Truthy(position) /\ position <= 10
        THEN race_points + 1
        ELSE race_points

\* The Race branch of the per-row points calculation.
RacePoints(y, position, fastest_lap) ==
    LET race_points == BasePoints(y, position)
    IN  IF has_fastest_lap_point(y) /\ fastest_lap /\ Truthy(position)
           /\ (y <= 1959 \/ position <= 10)
        THEN race_points + 1
        ELSE race_points

\* The Sprint Race branch of the per-row points calculation.
SprintPoints(y, position) == DictGet(get_sprint_points_system(y), position, 0)

\* Sprint points left out of the round.
RowPointsRaceOnly(y, row) ==
    IF row.session_type = "Race" THEN RacePoints(y, row.position, row.fastest_lap) ELSE 0

\* Points one row adds to its driver's round (Qualifying rows are never selected).
RowPoints(y, row) ==
    IF row.session_type = "Race" THEN RacePoints(y, row.position, row.fastest_lap)
    ELSE IF row.session_type = "Sprint Race" THEN SprintPoints(y, row.position)
    ELSE 0

---------------------------------------------------------------------------
(* The store *)

NoResponse == [status |-> 0]
NoProfile == [status |-> 0]
NoSeasonDrivers == [status |-> 0]
NoSchedule == [status |-> 0]
NoDriverPoints == {}
NoPositions == [d \in {} |-> 0]

\* Some endpoint has answered: the rows it read are the rows of the store.
Served ==
    \/ response /= NoResponse
    \/ profile /= NoProfile
    \/ season_drivers /= NoSeasonDrivers
    \/ schedule /= NoSchedule

\* The values a session_results row may take.
ResultRows ==
    { [driver_id |-> d, team_id |-> t, round_number |-> rn, session_type |-> k,
       position |-> p, fastest_lap |-> f] :
        d \in Drivers, t \in Teams, rn \in {c.round_number : c \in Calendar},
        k \in SessionTypes, p \in Positions \cup {NULL}, f \in BOOLEAN }

\* Rows whose position is a text that is no number.
MalformedRows ==
    { [driver_id |-> d, team_id |-> t, round_number |-> rn, session_type |-> k,
       position |-> DNF, fastest_lap |-> f] :
        d \in Drivers, t \in Teams, rn \in {c.round_number : c \in Calendar},
        k \in {"Race", "Sprint Race"}, f \in BOOLEAN }

\* A races row is written by the population scripts.
InsertRace(c) ==
    /\ ~Served
    /\ c \in Calendar \ races
    /\ races' = races \cup {c}
    /\ UNCHANGED <<year, session_results, response, entry, awarded, laterVars, espnVars, cacheVars>>

\* A session_results row is written (one row per session and driver); its
\* session belongs to a races row of the season.  fastest_lap is a Race statistic.
InsertResult(row) ==
    /\ ~Served
    /\ Cardinality(session_results) < MaxRows
    /\ row.round_number \in {c.round_number : c \in races}
    /\ row.fastest_lap => row.session_type = "Race"
    /\ ~ \E o \in session_results :
            /\ o.driver_id = row.driver_id
            /\ o.round_number = row.round_number
            /\ o.session_type = row.session_type
    /\ session_results' = session_results \cup {row}
    /\ UNCHANGED <<year, races, response, entry, awarded, laterVars, espnVars, cacheVars>>

---------------------------------------------------------------------------
(* get_complete_standings: the queries *)

RoundsOf(rcs) == {c.round_number : c \in rcs}
RaceOfRound(rcs, rn) == CHOOSE c \in rcs : c.round_number = rn

\* SELECT ... FROM races WHERE year = ? ORDER BY round_number
RECURSIVE RacesQuery(_)
RacesQuery(rcs) ==
    IF rcs = {} THEN <<>>
    ELSE LET first == CHOOSE c \in rcs : \A o \in rcs : c.round_number <= o.round_number
         IN  <<first>> \o RacesQuery(rcs \ {first})

\* The drivers map: one row per driver with a Race-session row, carrying the team
\* of the driver's latest round (ROW_NUMBER() ... ORDER BY r.round_number DESC, rn = 1).
DriversQuery(sr) ==
    LET raceRows == {r \in sr : r.session_type = "Race"}
        latest(d) == CHOOSE r \in raceRows :
                        /\ r.driver_id = d
                        /\ \A o \in raceRows : o.driver_id = d => o.round_number <= r.round_number
    IN  [d \in {r.driver_id : r \in raceRows} |->
            [driver_name |-> d, abbreviation |-> d, team_name |-> latest(d).team_id]]

\* The position-1 drivers of a round in any of its sessions.
PositionOneDriversAnySession(sr, kind, rn) ==
    {r.driver_id : r \in {x \in sr : x.round_number = rn /\ x.position = 1}}

\* The drivers a position-1 query returns for a round of one session type.  Rows
\* of one round come back in no specified order (ORDER BY r.round_number only).
PositionOneDrivers(sr, kind, rn) ==
    {r.driver_id : r \in {x \in sr : x.session_type = kind /\ x.round_number = rn /\ x.position = 1}}

\* {row['round_number']: row[...abbr] for row in cursor.fetchall()}: the last row
\* of a round wins, so any of the round's position-1 drivers may be the value.
PositionOneMaps(sr, kind) ==
    LET rounds == {r.round_number : r \in {x \in sr : x.session_type = kind /\ x.position = 1}}
    IN  {m \in [rounds -> Drivers] : \A rn \in rounds : m[rn] \in PositionOneDrivers(sr, kind, rn)}

\* race_metadata, one record per races row in query order.
RaceMetadata(calendar, race_winners, pole_positions, sprint_winners) ==
    [i \in 1..Len(calendar) |->
        [roundNumber  |-> calendar[i].round_number,
         eventName    |-> calendar[i].event_name,
         country      |-> calendar[i].country,
         hasSprint    |-> calendar[i].has_sprint /= 0,
         raceWinner   |-> DictGet(race_winners, calendar[i].round_number, None),
         polePosition |-> DictGet(pole_positions, calendar[i].round_number, None),
         sprintWinner |-> DictGet(sprint_winners, calendar[i].round_number, None)]]

\* ORDER BY d.display_name, r.round_number, rs.session_type
ResultRowKey(r) ==
    IndexOf(DriverOrder, r.driver_id) * 1000 + r.round_number * 10
        + IndexOf(SessionOrder, r.session_type)

\* The driver results query: the Race and Sprint Race rows of the year, ordered.
RECURSIVE OrderedResults(_)
OrderedResults(rows) ==
    IF rows = {} THEN <<>>
    ELSE LET first == CHOOSE r \in rows : \A o \in rows : ResultRowKey(r) <= ResultRowKey(o)
         IN  <<first>> \o OrderedResults(rows \ {first})

\* The rows of every session type.
DriverResultsQueryAllSessions(sr) == OrderedResults(sr)

\* WHERE r.year = ? AND rs.session_type IN ('Race', 'Sprint Race')
DriverResultsQuery(sr) ==
    OrderedResults({r \in sr : r.session_type \in {"Race", "Sprint Race"}})

---------------------------------------------------------------------------
(* get_complete_standings: drivers *)

\* drivers.get(driver_id, {})
EmptyDict == [k \in {} |-> None]

\* One iteration of the loop over the result rows: create the driver's entry and
\* the round's entry when missing, then add the row's points to the round.
AccumulateDriverRow(data, row, drivers, rcs, y) ==
    LET withDriver ==
            IF \E i \in 1..Len(data) : data[i].driver_id = row.driver_id
            THEN data
            ELSE Append(data, [driver_id |-> row.driver_id,
                               info      |-> DictGet(drivers, row.driver_id, EmptyDict),
                               races     |-> <<>>])
        i == CHOOSE k \in 1..Len(withDriver) : withDriver[k].driver_id = row.driver_id
        rounds == withDriver[i].races
        withRound ==
            IF \E j \in 1..Len(rounds) : rounds[j].roundNumber = row.round_number
            THEN rounds
            ELSE Append(rounds, [roundNumber |-> row.round_number,
                                 eventName   |-> RaceOfRound(rcs, row.round_number).event_name,
                                 country     |-> RaceOfRound(rcs, row.round_number).country,
                                 points      |-> 0])
        added == [j \in 1..Len(withRound) |->
                    IF withRound[j].roundNumber = row.round_number
                    THEN [withRound[j] EXCEPT !.points = @ + RowPoints(y, row)]
                    ELSE withRound[j]]
    IN  [withDriver EXCEPT ![i].races = added]

\* driver_race_data after the loop over rows[1..n], in dict insertion order.
RECURSIVE DriverRaceData(_, _, _, _, _)
DriverRaceData(rows, n, drivers, rcs, y) ==
    IF n = 0 THEN <<>>
    ELSE AccumulateDriverRow(DriverRaceData(rows, n - 1, drivers, rcs, y), rows[n], drivers, rcs, y)

\* A sum that misses the first round.
RECURSIVE SumPointsFromSecond(_, _)
SumPointsFromSecond(rounds, n) ==
    IF n <= 1 THEN 0 ELSE SumPointsFromSecond(rounds, n - 1) + rounds[n].points

\* sum(race['points'] for race in data['races'])
RECURSIVE SumPoints(_, _)
SumPoints(rounds, n) ==
    IF n = 0 THEN 0 ELSE SumPoints(rounds, n - 1) + rounds[n].points

\* No filling in: only the rounds the driver has rows for.
AllRaceResultsEnteredOnly(calendar, rounds) == rounds

\* Filling in with 0 points instead of None.
AllRaceResultsZeroFilled(calendar, rounds) ==
    [i \in 1..Len(calendar) |->
        IF \E j \in 1..Len(rounds) : rounds[j].roundNumber = calendar[i].round_number
        THEN rounds[CHOOSE j \in 1..Len(rounds) : rounds[j].roundNumber = calendar[i].round_number]
        ELSE [roundNumber |-> calendar[i].round_number,
              eventName   |-> calendar[i].event_name,
              country     |-> calendar[i].country,
              points      |-> 0]]

\* "Fill in all races in order": the driver's round when it has one, else a
\* placeholder with points None.
AllRaceResults(calendar, rounds) ==
    [i \in 1..Len(calendar) |->
        IF \E j \in 1..Len(rounds) : rounds[j].roundNumber = calendar[i].round_number
        THEN rounds[CHOOSE j \in 1..Len(rounds) : rounds[j].roundNumber = calendar[i].round_number]
        ELSE [roundNumber |-> calendar[i].round_number,
              eventName   |-> calendar[i].event_name,
              country     |-> calendar[i].country,
              points      |-> NULL]]

\* data['info']['driver_name'] raises KeyError on an empty info dict.
InfoMissing(data) == "driver_name" \notin DOMAIN data.info

DriverRow(calendar, data) ==
    [driverName         |-> data.info.driver_name,
     driverAbbreviation |-> data.info.abbreviation,
     teamName           |-> data.info.team_name,
     totalPoints        |-> SumPoints(data.races, Len(data.races)),
     raceResults        |-> AllRaceResults(calendar, data.races)]

\* An insertion that puts a row before the rows of equal totalPoints.
InsertByTotalBeforeEquals(sorted, x) ==
    LET k == Cardinality({j \in 1..Len(sorted) : sorted[j].totalPoints > x.totalPoints})
    IN  SubSeq(sorted, 1, k) \o <<x>> \o SubSeq(sorted, k + 1, Len(sorted))

\* list.sort(key=lambda x: x['totalPoints'], reverse=True): a stable sort, rows
\* of equal totalPoints keep their order.
InsertByTotal(sorted, x) ==
    LET k == Cardinality({j \in 1..Len(sorted) : sorted[j].totalPoints >= x.totalPoints})
    IN  SubSeq(sorted, 1, k) \o <<x>> \o SubSeq(sorted, k + 1, Len(sorted))

\* The rows left in insertion order.
SortByTotalDescSkipped(rows, n) == SubSeq(rows, 1, n)

RECURSIVE SortByTotalDesc(_, _)
SortByTotalDesc(rows, n) ==
    IF n = 0 THEN <<>> ELSE InsertByTotal(SortByTotalDesc(rows, n - 1), rows[n])

DriverResults(calendar, driver_race_data) ==
    LET unsorted == [i \in 1..Len(driver_race_data) |-> DriverRow(calendar, driver_race_data[i])]
    IN  SortByTotalDesc(unsorted, Len(unsorted))

---------------------------------------------------------------------------
(* get_complete_standings: constructors *)

\* SQLite's text of an integer (sr.position || ':' || ...), as its decimal digits.
RECURSIVE IntToText(_)
IntToText(n) == IF n < 10 THEN <<n>> ELSE IntToText(n \div 10) \o <<n % 10>>

\* Python's int(pos_str) of a string of decimal digits.
RECURSIVE TextToInt(_, _)
TextToInt(digits, n) ==
    IF n = 0 THEN 0 ELSE TextToInt(digits, n - 1) * 10 + digits[n]

\* int(pos_str) returns for a string of decimal digits and raises ValueError
\* otherwise.
IsInt(pos_str) == \A i \in 1..Len(pos_str) : pos_str[i] \in 0..9

\* sr.position || ':' || COALESCE(sr.fastest_lap, 0), split at ':'.
PosInfo(r) ==
    [pos_str |-> IF r.position = DNF THEN DNFText ELSE IntToText(r.position),
     fastest_str |-> IntToText(IF r.fastest_lap THEN 1 ELSE 0)]

\* GROUP_CONCAT over the rows of a group: a NULL position makes the row's term
\* NULL, and GROUP_CONCAT leaves NULL terms out.
RECURSIVE GroupConcat(_)
GroupConcat(rows) ==
    IF rows = {} THEN <<>>
    ELSE LET first == CHOOSE r \in rows : \A o \in rows : ResultRowKey(r) <= ResultRowKey(o)
         IN  (IF first.position = NULL THEN <<>> ELSE <<PosInfo(first)>>)
                \o GroupConcat(rows \ {first})

\* GROUP BY t.id, r.round_number, rs.session_type
\* ORDER BY t.display_name, r.round_number, rs.session_type
GroupKey(g) ==
    IndexOf(TeamOrder, g.team_id) * 1000 + g.round_number * 10
        + IndexOf(SessionOrder, g.session_type)

RECURSIVE OrderedGroups(_)
OrderedGroups(groups) ==
    IF groups = {} THEN <<>>
    ELSE LET first == CHOOSE g \in groups : \A o \in groups : GroupKey(g) <= GroupKey(o)
         IN  <<first>> \o OrderedGroups(groups \ {first})

ConstructorResultsQuery(sr) ==
    LET rows == {r \in sr : r.session_type \in {"Race", "Sprint Race"}}
        keys == {<<r.team_id, r.round_number, r.session_type>> : r \in rows}
    IN  OrderedGroups(
            { [team_id |-> k[1], round_number |-> k[2], session_type |-> k[3],
               positions |-> GroupConcat({r \in rows :
                    r.team_id = k[1] /\ r.round_number = k[2] /\ r.session_type = k[3]})]
              : k \in keys })

\* The loop over pos_info of one group row: team_points before the fastest-lap
\* point.  An entry that int() rejects is passed over (except: pass).
RECURSIVE TeamTablePoints(_, _, _, _)
TeamTablePoints(positions, n, session_type, y) ==
    IF n = 0 THEN 0
    ELSE LET pos == TextToInt(positions[n].pos_str, Len(positions[n].pos_str))
         IN  TeamTablePoints(positions, n - 1, session_type, y)
                + (IF ~IsInt(positions[n].pos_str) THEN 0
                   ELSE IF session_type = "Race" THEN DictGet(get_points_system(y), pos, 0)
                   ELSE IF session_type = "Sprint Race"
                        THEN DictGet(get_sprint_points_system(y), pos, 0)
                   ELSE 0)

\* team_had_fastest after the loop.
TeamHadFastest(positions, session_type, y) ==
    /\ session_type = "Race"
    /\ has_fastest_lap_point(y)
    /\ \E n \in 1..Len(positions) :
          /\ IsInt(positions[n].pos_str)
          /\ positions[n].fastest_str = <<1>>
          /\ (y <= 1959 \/ TextToInt(positions[n].pos_str, Len(positions[n].pos_str)) <= 10)

TeamPoints(g, y) ==
    TeamTablePoints(g.positions, Len(g.positions), g.session_type, y)
        + (IF TeamHadFastest(g.positions, g.session_type, y) THEN 1 ELSE 0)

\* One iteration of the loop over the group rows.
AccumulateTeamRow(data, g, rcs, y) ==
    LET withTeam ==
            IF \E i \in 1..Len(data) : data[i].team_id = g.team_id
            THEN data
            ELSE Append(data, [team_id |-> g.team_id, teamName |-> g.team_id, races |-> <<>>])
        i == CHOOSE k \in 1..Len(withTeam) : withTeam[k].team_id = g.team_id
        rounds == withTeam[i].races
        withRound ==
            IF \E j \in 1..Len(rounds) : rounds[j].roundNumber = g.round_number
            THEN rounds
            ELSE Append(rounds, [roundNumber |-> g.round_number,
                                 eventName   |-> RaceOfRound(rcs, g.round_number).event_name,
                                 country     |-> RaceOfRound(rcs, g.round_number).country,
                                 points      |-> 0])
        added == [j \in 1..Len(withRound) |->
                    IF withRound[j].roundNumber = g.round_number
                    THEN [withRound[j] EXCEPT !.points = @ + TeamPoints(g, y)]
                    ELSE withRound[j]]
    IN  [withTeam EXCEPT ![i].races = added]

RECURSIVE ConstructorRaceData(_, _, _, _)
ConstructorRaceData(groups, n, rcs, y) ==
    IF n = 0 THEN <<>>
    ELSE AccumulateTeamRow(ConstructorRaceData(groups, n - 1, rcs, y), groups[n], rcs, y)

\* A constructor's row: raceResults is the list of the rounds the team has rows for.
ConstructorRow(data) ==
    [teamName    |-> data.teamName,
     totalPoints |-> SumPoints(data.races, Len(data.races)),
     raceResults |-> data.races]

ConstructorResults(constructor_race_data) ==
    LET unsorted == [i \in 1..Len(constructor_race_data) |->
                        ConstructorRow(constructor_race_data[i])]
    IN  SortByTotalDesc(unsorted, Len(unsorted))

---------------------------------------------------------------------------
(* get_complete_standings: the handler *)

EmptyBody == [year |-> 0, raceMetadata |-> <<>>, driverResults |-> <<>>,
              constructorResults |-> <<>>]

\* position <= 10 raises TypeError for a text position; it is evaluated for a
\* Race row with the fastest lap in a year of the fastest-lap point after 1959.
PositionTypeError(y, row) ==
    /\ row.session_type = "Race"
    /\ has_fastest_lap_point(y)
    /\ row.fastest_lap
    /\ row.position = DNF
    /\ y > 1959

\* The response for the store's rows; an exception anywhere in the handler is
\* caught and turned into HTTP 500.
CompleteStandings(y, rcs, sr, race_winners, pole_positions, sprint_winners) ==
    LET drivers == DriversQuery(sr)
        calendar == RacesQuery(rcs)
        rows == DriverResultsQuery(sr)
        driver_race_data == DriverRaceData(rows, Len(rows), drivers, rcs, y)
        groups == ConstructorResultsQuery(sr)
        constructor_race_data == ConstructorRaceData(groups, Len(groups), rcs, y)
    IN  IF \/ \E i \in 1..Len(rows) : PositionTypeError(y, rows[i])
           \/ \E i \in 1..Len(driver_race_data) : InfoMissing(driver_race_data[i])
        THEN [status |-> 500, body |-> EmptyBody]
        ELSE [status |-> 200,
              body |-> [year |-> y,
                        raceMetadata |-> RaceMetadata(calendar, race_winners,
                                                      pole_positions, sprint_winners),
                        driverResults |-> DriverResults(calendar, driver_race_data),
                        constructorResults |-> ConstructorResults(constructor_race_data)]]

NoEntry == [session_type |-> None, position |-> NULL, fastest_lap |-> FALSE]
NotAwarded == [done |-> FALSE, base |-> 0, points |-> 0]

\* GET /standings/complete/{year}
GetCompleteStandings ==
    /\ response = NoResponse
    /\ entry = NoEntry
    /\ \E race_winners \in PositionOneMaps(session_results, "Race"),
          pole_positions \in PositionOneMaps(session_results, "Qualifying"),
          sprint_winners \in PositionOneMaps(session_results, "Sprint Race") :
            response' = CompleteStandings(year, races, session_results,
                                          race_winners, pole_positions, sprint_winners)
    /\ UNCHANGED <<year, races, session_results, entry, awarded, laterVars, espnVars, cacheVars>>

Init ==
    /\ year \in Years
    /\ races = {}
    /\ session_results = {}
    /\ response = NoResponse
    /\ entry = NoEntry
    /\ awarded = NotAwarded
    /\ profile = NoProfile
    /\ season_drivers = NoSeasonDrivers
    /\ schedule = NoSchedule
    /\ driver_points = NoDriverPoints
    /\ championship_position = NoPositions
    /\ Idle

Next ==
    \/ \E c \in Calendar : InsertRace(c)
    \/ \E row \in ResultRows : InsertResult(row)
    \/ GetCompleteStandings

Spec == Init /\ [][Next]_vars

\* The store may also hold rows whose position is no number.
MalformedNext ==
    \/ \E c \in Calendar : InsertRace(c)
    \/ \E row \in ResultRows \cup MalformedRows : InsertResult(row)
    \/ GetCompleteStandings

MalformedSpec == Init /\ [][MalformedNext]_vars

---------------------------------------------------------------------------
(* The points rules applied to a single result entry *)

\* The Race branch for one entry: the table value and the points with the bonus.
ScoreRace ==
    /\ entry.session_type = "Race"
    /\ ~awarded.done
    /\ awarded' = [done |-> TRUE,
                   base |-> BasePoints(year, entry.position),
                   points |-> RowPoints(year, entry)]
    /\ UNCHANGED <<year, races, session_results, response, entry, laterVars, espnVars, cacheVars>>

\* The Sprint Race branch for one entry.
ScoreSprint ==
    /\ entry.session_type = "Sprint Race"
    /\ ~awarded.done
    /\ awarded' = [done |-> TRUE, base |-> 0, points |-> RowPoints(year, entry)]
    /\ UNCHANGED <<year, races, session_results, response, entry, laterVars, espnVars, cacheVars>>

PointsInit ==
    /\ year \in PointYears
    /\ races = {}
    /\ session_results = {}
    /\ response = NoResponse
    /\ entry \in [session_type : {"Race", "Sprint Race"},
                  position : (1..MaxPosition) \cup {NULL},
                  fastest_lap : BOOLEAN]
    /\ awarded = NotAwarded
    /\ profile = NoProfile
    /\ season_drivers = NoSeasonDrivers
    /\ schedule = NoSchedule
    /\ driver_points = NoDriverPoints
    /\ championship_position = NoPositions
    /\ Idle

PointsNext == ScoreRace \/ ScoreSprint

PointsSpec == PointsInit /\ [][PointsNext]_vars

---------------------------------------------------------------------------
(* get_driver_profile: the championship position query *)

\* half_points_races: Monaco 1984 (round 6) and the Belgian GP 2021 (round 12).
is_half_points_race(y, round_number) ==
    \/ y = 1984 /\ round_number = 6
    \/ y = 2021 /\ round_number = 12

\* CASE sr.position WHEN 1 THEN ? ... WHEN 10 THEN ? ELSE 0 END, the parameters
\* being points_system.get(i, 0) for i in range(1, 11).
CasePoints(y, position) ==
    IF position \in 1..10 THEN DictGet(get_points_system(y), position, 0) ELSE 0

RECURSIVE SumCasePoints(_, _)
SumCasePoints(y, rows) ==
    IF rows = {} THEN 0
    ELSE LET r == CHOOSE x \in rows : TRUE
         IN  (IF r.position /= NULL THEN CasePoints(y, r.position) ELSE 0)
                + SumCasePoints(y, rows \ {r})

\* WITH driver_points AS (... WHERE r.year = ? AND rs.session_type = 'Race'
\* GROUP BY sr.driver_id): one row per driver with a Race row.
DriverPointsQuery(sr, y) ==
    LET raceRows == {r \in sr : r.session_type = "Race"}
    IN  { [driver_id |-> d,
           total_points |-> SumCasePoints(y, {r \in raceRows : r.driver_id = d})]
          : d \in {r.driver_id : r \in raceRows} }

\* SELECT total_points FROM driver_points WHERE driver_id = ?  (NULL without a row)
OwnTotal(dp, driver_id) ==
    IF \E row \in dp : row.driver_id = driver_id
    THEN (CHOOSE row \in dp : row.driver_id = driver_id).total_points
    ELSE NULL

\* A comparison that also counts the rows of equal total.
ChampionshipPositionCountingTies(dp, driver_id) ==
    LET own == OwnTotal(dp, driver_id)
    IN  IF own = NULL THEN 1
        ELSE Cardinality({row \in dp : row.total_points >= own /\ row.driver_id /= driver_id}) + 1

\* SELECT COUNT(*) + 1 FROM driver_points WHERE total_points > (own total); a
\* comparison with NULL selects no row.
ChampionshipPosition(dp, driver_id) ==
    LET own == OwnTotal(dp, driver_id)
    IN  IF own = NULL THEN 1
        ELSE Cardinality({row \in dp : row.total_points > own}) + 1

\* The drivers and season totals of the championship position query on its own.
RankDrivers == {"ALO", "BOT", "COU"}
RankTotals == {0, 18, 25}

\* The query is run for one driver of a season.
ComputeChampionshipPosition(d) ==
    /\ driver_points /= NoDriverPoints
    /\ d \notin DOMAIN championship_position
    /\ championship_position' =
            [x \in DOMAIN championship_position \cup {d} |->
                IF x = d THEN ChampionshipPosition(driver_points, d)
                ELSE championship_position[x]]
    /\ UNCHANGED <<year, races, session_results, response, entry, awarded,
                   profile, season_drivers, schedule, driver_points, espnVars, cacheVars>>

RankInit ==
    /\ year \in Years
    /\ races = {}
    /\ session_results = {}
    /\ response = NoResponse
    /\ entry = NoEntry
    /\ awarded = NotAwarded
    /\ profile = NoProfile
    /\ season_drivers = NoSeasonDrivers
    /\ schedule = NoSchedule
    /\ driver_points \in
            { {[driver_id |-> d, total_points |-> t[d]] : d \in RankDrivers}
              : t \in [RankDrivers -> RankTotals] }
    /\ championship_position = NoPositions
    /\ Idle

RankNext == \E d \in RankDrivers : ComputeChampionshipPosition(d)

RankSpec == RankInit /\ [][RankNext]_vars

---------------------------------------------------------------------------
(* get_schedule: podium and winning constructor of each event *)

\* get_points_for_position(position, year)
get_points_for_position(position, y) ==
    LET points_system ==
            IF y >= 2010 THEN <<25, 18, 15, 12, 10, 8, 6, 4, 2, 1>>
            ELSE IF y >= 2003 THEN <<10, 8, 6, 5, 4, 3, 2, 1>>
            ELSE IF y >= 1991 THEN <<10, 6, 4, 3, 2, 1>>
            ELSE IF y >= 1961 THEN <<9, 6, 4, 3, 2, 1>>
            ELSE IF y = 1960 THEN <<8, 6, 4, 3, 2, 1>>
            ELSE <<8, 6, 4, 3, 2>>
    IN  DictGet(points_system, position, 0)

\* ORDER BY r.round_number, sr.position
RoundPositionKey(r) == r.round_number * 100 + r.position

\* The orders in which a query ordered by round and position may return rows:
\* rows of one round and position come in no specified order.
RoundPositionOrders(rows) ==
    {s \in [1..Cardinality(rows) -> rows] :
        \A i \in 1..Cardinality(rows) : \A j \in 1..Cardinality(rows) :
            i < j => /\ s[i] /= s[j]
                     /\ RoundPositionKey(s[i]) <= RoundPositionKey(s[j])}

\* WHERE r.year = ? AND rs.session_type = 'Race' AND sr.position <= 3
PodiumQuery(sr) ==
    RoundPositionOrders({r \in sr : r.session_type = "Race" /\ r.position /= NULL
                                     /\ r.position <= 3})

\* podium_map: the drivers of each round in the order read.
RECURSIVE PodiumMap(_, _)
PodiumMap(rows, n) ==
    IF n = 0 THEN [rn \in {} |-> <<>>]
    ELSE LET before == PodiumMap(rows, n - 1)
             rn == rows[n].round_number
         IN  (rn :> Append(DictGet(before, rn, <<>>), rows[n].driver_id)) @@ before

\* WHERE r.year = ? AND rs.session_type = 'Race' AND sr.position IS NOT NULL
WinningConstructorQuery(sr) ==
    RoundPositionOrders({r \in sr : r.session_type = "Race" /\ r.position /= NULL})

\* max(team_points.items(), key=lambda x: x[1])[0]: the first of the teams of
\* maximal points, in insertion order.
WinningTeamName(team_points) ==
    LET i == CHOOSE k \in 1..Len(team_points) :
                /\ \A j \in 1..Len(team_points) : team_points[j].points <= team_points[k].points
                /\ \A j \in 1..(k - 1) : team_points[j].points < team_points[k].points
    IN  team_points[i].team_name

\* The points carried over into the next round.
TeamPointsCarriedOver(team_points) == team_points

\* team_points = {} when the round changes.
TeamPointsOfNewRound(team_points) == <<>>

\* if team_points: winning_constructor_map[current_round] = ...
CloseRound(st) ==
    IF Len(st.team_points) > 0
    THEN (st.current_round :> WinningTeamName(st.team_points)) @@ st.winning_constructor_map
    ELSE st.winning_constructor_map

\* One iteration of the loop over the rows of the winning constructor query.
WinningConstructorStep(st, row, y) ==
    LET moved == st.current_round /= NULL /\ row.round_number /= st.current_round
        map == IF moved THEN CloseRound(st) ELSE st.winning_constructor_map
        tp == IF moved THEN TeamPointsOfNewRound(st.team_points) ELSE st.team_points
        points == get_points_for_position(row.position, y)
        added ==
            IF \E i \in 1..Len(tp) : tp[i].team_name = row.team_id
            THEN [i \in 1..Len(tp) |->
                    IF tp[i].team_name = row.team_id
                    THEN [tp[i] EXCEPT !.points = @ + points]
                    ELSE tp[i]]
            ELSE Append(tp, [team_name |-> row.team_id, points |-> points])
    IN  [winning_constructor_map |-> map,
         current_round |-> row.round_number,
         team_points |-> added]

RECURSIVE WinningConstructorLoop(_, _, _)
WinningConstructorLoop(rows, n, y) ==
    IF n = 0
    THEN [winning_constructor_map |-> [rn \in {} |-> None],
          current_round |-> NULL,
          team_points |-> <<>>]
    ELSE WinningConstructorStep(WinningConstructorLoop(rows, n - 1, y), rows[n], y)

\* winning_constructor_map after the loop and "the last round".
WinningConstructorMap(rows, y) ==
    LET st == WinningConstructorLoop(rows, Len(rows), y)
    IN  IF st.current_round /= NULL THEN CloseRound(st) ELSE st.winning_constructor_map

\* The events of ff1.get_event_schedule(year): the rounds of the season's calendar.
ScheduleData == RacesQuery(Calendar)

\* The response: each event with its Podium and WinningConstructor (its name).
Schedule(y, sr, podium_rows, constructor_rows) ==
    LET podium_map == PodiumMap(podium_rows, Len(podium_rows))
        winning_constructor_map == WinningConstructorMap(constructor_rows, y)
    IN  [status |-> 200,
         body |-> [i \in 1..Len(ScheduleData) |->
                    [RoundNumber |-> ScheduleData[i].round_number,
                     Podium |-> DictGet(podium_map, ScheduleData[i].round_number, <<>>),
                     WinningConstructor |->
                        DictGet(winning_constructor_map, ScheduleData[i].round_number, None)]]]

\* GET /fastf1/schedule/{year}
GetSchedule ==
    /\ schedule = NoSchedule
    /\ \E podium_rows \in PodiumQuery(session_results),
          constructor_rows \in WinningConstructorQuery(session_results) :
            schedule' = Schedule(year, session_results, podium_rows, constructor_rows)
    /\ UNCHANGED <<year, races, session_results, response, entry, awarded,
                   profile, season_drivers, driver_points, championship_position, espnVars, cacheVars>>

ScheduleNext ==
    \/ \E c \in Calendar : InsertRace(c)
    \/ \E row \in ResultRows : InsertResult(row)
    \/ GetSchedule

ScheduleSpec == Init /\ [][ScheduleNext]_vars

---------------------------------------------------------------------------
(* get_driver_profile: a driver's seasons *)

\* Twice the points one result row adds to total_points (points come in halves
\* after race_points / 2): a Race or Sprint Race row with a position counts.
SeasonRowPointsTwice(y, row) ==
    IF row.session_type = "Race" /\ Truthy(row.position)
    THEN LET race_points == DictGet(get_points_system(y), row.position, 0)
             halved == IF is_half_points_race(y, row.round_number)
                       THEN race_points ELSE 2 * race_points
         IN  IF has_fastest_lap_point(y) /\ row.fastest_lap /\ Truthy(row.position)
                /\ (y <= 1959 \/ row.position <= 10)
             THEN halved + 2
             ELSE halved
    ELSE IF row.session_type = "Sprint Race" /\ Truthy(row.position)
    THEN 2 * DictGet(get_sprint_points_system(y), row.position, 0)
    ELSE 0

\* Twice season['points']: the loop over the driver's Race and Sprint Race rows.
RECURSIVE SeasonPointsTwice(_, _)
SeasonPointsTwice(y, rows) ==
    IF rows = {} THEN 0
    ELSE LET r == CHOOSE x \in rows : TRUE
         IN  SeasonRowPointsTwice(y, r) + SeasonPointsTwice(y, rows \ {r})

\* The driver's Race and Sprint Race rows of the year.
SeasonResultsQuery(sr, driver_id) ==
    {r \in sr : r.driver_id = driver_id /\ r.session_type \in {"Race", "Sprint Race"}}

\* COUNT(DISTINCT CASE WHEN ... THEN session END) over Race rows.
CountRaces(rows) == Cardinality({r.round_number : r \in rows})
CountWins(rows) == Cardinality({r.round_number : r \in {x \in rows : x.position = 1}})
CountPodiums(rows) ==
    Cardinality({r.round_number : r \in {x \in rows : x.position /= NULL /\ x.position <= 3}})

\* The seasons query, one row per year and team of the driver's Race rows, each
\* enriched with points and championship_position.  Rows of one year come in
\* no specified order and are kept as a set.
Seasons(sr, driver_id, y) ==
    LET raceRows == {r \in sr : r.driver_id = driver_id /\ r.session_type = "Race"}
    IN  { [year |-> y,
           races |-> CountRaces({r \in raceRows : r.team_id = t}),
           wins |-> CountWins({r \in raceRows : r.team_id = t}),
           podiums |-> CountPodiums({r \in raceRows : r.team_id = t}),
           team_name |-> t,
           pointsTwice |-> SeasonPointsTwice(y, SeasonResultsQuery(sr, driver_id)),
           championship_position |-> ChampionshipPosition(DriverPointsQuery(sr, y), driver_id)]
          : t \in {r.team_id : r \in raceRows} }

\* ORDER BY r.year DESC, r.round_number DESC
RECURSIVE ProfileRaceResults(_)
ProfileRaceResults(rows) ==
    IF rows = {} THEN <<>>
    ELSE LET first == CHOOSE r \in rows : \A o \in rows : r.round_number >= o.round_number
         IN  <<[round_number |-> first.round_number,
                session_type |-> first.session_type,
                position |-> first.position,
                fastest_lap |-> first.fastest_lap,
                team_name |-> first.team_id]>>
                \o ProfileRaceResults(rows \ {first})

\* The rows of the drivers table, and an id that is none of them.
UnknownDriver == "ZZZ"

\* The response: 404 for an id without a drivers row.
DriverProfile(y, sr, driver_id) ==
    IF driver_id \notin Drivers
    THEN [status |-> 404]
    ELSE LET raceRows == {r \in sr : r.driver_id = driver_id /\ r.session_type = "Race"}
         IN  [status |-> 200,
              driver |-> [id |-> driver_id,
                          total_races |-> CountRaces(raceRows),
                          wins |-> CountWins(raceRows),
                          podiums |-> CountPodiums(raceRows)],
              seasons |-> Seasons(sr, driver_id, y),
              raceResults |-> ProfileRaceResults(raceRows)]

\* GET /drivers/profile/{driver_id}
GetDriverProfile(driver_id) ==
    /\ profile = NoProfile
    /\ profile' = DriverProfile(year, session_results, driver_id)
    /\ UNCHANGED <<year, races, session_results, response, entry, awarded,
                   season_drivers, schedule, driver_points, championship_position, espnVars, cacheVars>>

ProfileNext ==
    \/ \E c \in Calendar : InsertRace(c)
    \/ \E row \in ResultRows : InsertResult(row)
    \/ \E driver_id \in Drivers \cup {UnknownDriver} : GetDriverProfile(driver_id)

ProfileSpec == Init /\ [][ProfileNext]_vars

---------------------------------------------------------------------------
(* get_drivers_by_season: the drivers of a season with their statistics *)

\* driver_latest_team: a driver with a Race or Sprint Race row, with the team of
\* a row of the driver's latest round (rn = 1; rows of one round tie).
LatestTeams(sr, driver_id) ==
    LET rows == {r \in sr : r.driver_id = driver_id
                            /\ r.session_type \in {"Race", "Sprint Race"}}
    IN  {r.team_id : r \in {x \in rows : \A o \in rows : o.round_number <= x.round_number}}

\* The drivers of the query in the order of their names.
SeasonDriverIds(sr) ==
    LET ids == {r.driver_id : r \in {x \in sr : x.session_type \in {"Race", "Sprint Race"}}}
    IN  SelectSeq(DriverOrder, LAMBDA d : d \in ids)

\* position <= 3 raises TypeError for a Race row without a position.
PodiumTypeError(row) == row.session_type = "Race" /\ row.position = NULL

\* The points one result row adds to total_points.
StatsRowPoints(y, row) ==
    IF row.session_type = "Race" THEN RacePoints(y, row.position, row.fastest_lap)
    ELSE IF row.session_type = "Sprint Race" THEN SprintPoints(y, row.position)
    ELSE 0

RECURSIVE StatsTotalPoints(_, _)
StatsTotalPoints(y, rows) ==
    IF rows = {} THEN 0
    ELSE LET r == CHOOSE x \in rows : TRUE
         IN  StatsRowPoints(y, r) + StatsTotalPoints(y, rows \ {r})

\* One element of drivers_list; championshipPosition is set after sorting.
SeasonDriver(y, sr, driver_id, team_name) ==
    LET results == SeasonResultsQuery(sr, driver_id)
        raceRows == {r \in results : r.session_type = "Race"}
    IN  [driverId |-> driver_id,
         driverName |-> driver_id,
         teamName |-> team_name,
         stats |-> [totalPoints |-> StatsTotalPoints(y, results),
                    wins |-> Cardinality({r \in raceRows : r.position = 1}),
                    podiums |-> Cardinality({r \in raceRows : r.position <= 3}),
                    poles |-> Cardinality({r \in sr : /\ r.driver_id = driver_id
                                                     /\ r.session_type = "Qualifying"
                                                     /\ r.position = 1}),
                    racesEntered |-> Cardinality(raceRows)],
         championshipPosition |-> NULL]

\* list.sort(key=...): a stable sort by ascending key.
InsertByKey(sorted, x) ==
    LET k == Cardinality({j \in 1..Len(sorted) : sorted[j].key <= x.key})
    IN  SubSeq(sorted, 1, k) \o <<x>> \o SubSeq(sorted, k + 1, Len(sorted))

RECURSIVE SortKeyed(_, _)
SortKeyed(keyed, n) ==
    IF n = 0 THEN <<>> ELSE InsertByKey(SortKeyed(keyed, n - 1), keyed[n])

\* The values of the sort parameter.
SortOptions == {"points", "name", "team"}

\* The key of each sort; reverse=True keeps rows of equal points in order, as
\* an ascending sort by the negated points does.
SortKey(x, sort) ==
    IF sort = "points" THEN 0 - x.stats.totalPoints
    ELSE IF sort = "name" THEN IndexOf(DriverOrder, x.driverName)
    ELSE IF sort = "team" THEN IndexOf(TeamOrder, x.teamName)
    ELSE 0

\* "Sort based on parameter".
SortDrivers(drivers_list, sort) ==
    LET keyed == [i \in 1..Len(drivers_list) |->
                    [key |-> SortKey(drivers_list[i], sort), row |-> drivers_list[i]]]
        sorted == SortKeyed(keyed, Len(keyed))
    IN  [i \in 1..Len(sorted) |-> sorted[i].row]

\* The response for a choice of each driver's latest team.
DriversBySeason(y, sr, sort, latest_team) ==
    LET ids == SeasonDriverIds(sr)
        drivers_list == [i \in 1..Len(ids) |-> SeasonDriver(y, sr, ids[i], latest_team[ids[i]])]
        sorted == SortDrivers(drivers_list, sort)
    IN  IF \E r \in sr : PodiumTypeError(r)
        THEN [status |-> 500]
        ELSE [status |-> 200,
              year |-> y,
              drivers |-> [i \in 1..Len(sorted) |->
                            IF sort = "points"
                            THEN [sorted[i] EXCEPT !.championshipPosition = i]
                            ELSE sorted[i]]]

\* GET /drivers/season/{year}?sort=...
GetDriversBySeason(sort) ==
    /\ season_drivers = NoSeasonDrivers
    /\ \E latest_team \in [Drivers -> Teams] :
          /\ \A d \in Drivers :
                IF LatestTeams(session_results, d) = {}
                THEN latest_team[d] = TeamOrder[1]
                ELSE latest_team[d] \in LatestTeams(session_results, d)
          /\ season_drivers' = DriversBySeason(year, session_results, sort, latest_team)
    /\ UNCHANGED <<year, races, session_results, response, entry, awarded,
                   profile, schedule, driver_points, championship_position, espnVars, cacheVars>>

\* The three endpoints that report a driver's season total, over one store.
TotalsNext ==
    \/ \E c \in Calendar : InsertRace(c)
    \/ \E row \in ResultRows : InsertResult(row)
    \/ GetCompleteStandings
    \/ \E driver_id \in Drivers : GetDriverProfile(driver_id)
    \/ \E sort \in SortOptions : GetDriversBySeason(sort)

TotalsSpec == Init /\ [][TotalsNext]_vars

---------------------------------------------------------------------------
(* get_race_results: points of a result whose stored points are missing *)

\* The values of sr.points in the store.
StoredPoints == {NULL, 0, 7}

\* "Add calculated points if missing": result['points'] after the loop body;
\* get_points_for_position is the same table as get_schedule's.
CalculatedPoints(y, result) ==
    IF result.points = NULL /\ Truthy(result.position)
    THEN get_points_for_position(result.position, y)
            + (IF y >= 2019 /\ result.fastest_lap /\ result.position <= 10 THEN 1 ELSE 0)
    ELSE result.points

\* The loop body for one result of the race.
AddCalculatedPoints ==
    /\ ~awarded.done
    /\ awarded' = [done |-> TRUE,
                   base |-> get_points_for_position(entry.position, year),
                   points |-> CalculatedPoints(year, entry)]
    /\ UNCHANGED <<year, races, session_results, response, entry, laterVars, espnVars, cacheVars>>

RaceResultsInit ==
    /\ year \in PointYears
    /\ races = {}
    /\ session_results = {}
    /\ response = NoResponse
    /\ entry \in [session_type : {"Race"},
                  position : (1..MaxPosition) \cup {NULL},
                  fastest_lap : BOOLEAN,
                  points : StoredPoints]
    /\ awarded = NotAwarded
    /\ profile = NoProfile
    /\ season_drivers = NoSeasonDrivers
    /\ schedule = NoSchedule
    /\ driver_points = NoDriverPoints
    /\ championship_position = NoPositions
    /\ Idle

RaceResultsNext == AddCalculatedPoints

RaceResultsSpec == RaceResultsInit /\ [][RaceResultsNext]_vars

---------------------------------------------------------------------------
(* GET /espn/standings/{year}: get_standings *)

\* The results database before anything was written to it, for the endpoints
\* that do not read it.
EmptyStore ==
    /\ year = 2021
    /\ races = {}
    /\ session_results = {}
    /\ response = NoResponse
    /\ entry = NoEntry
    /\ awarded = NotAwarded
    /\ profile = NoProfile
    /\ season_drivers = NoSeasonDrivers
    /\ schedule = NoSchedule
    /\ driver_points = NoDriverPoints
    /\ championship_position = NoPositions

\* The values of the query parameter `type`: its default, the other accepted
\* value, and two values that are neither.
StandingsTypes == {"driver", "constructor", "team", ""}

\* The ESPN client returns the decoded JSON or raises.
EspnOutcomes == {"data", "error"}

\* What the exception handler of an endpoint makes of an exception raised in
\* its try block: `except Exception` catches every exception, an HTTPException
\* raised in the block included, and raises HTTPException(500, str(e)).
ExceptException(raised) == [status |-> 500, detail |-> raised.detail]

\* get_standings(year, type).  The else branch raises HTTPException(400) inside
\* the try block, so the handler of that same block catches it.
GetStandings ==
    /\ reply = NoReply
    /\ \E outcome \in EspnOutcomes :
          IF request.type \in {"driver", "constructor"}
          THEN /\ espn_requests' = espn_requests + 1
               /\ reply' = IF outcome = "data"
                           THEN [status |-> 200, detail |-> request.type]
                           ELSE ExceptException([status |-> NULL, detail |-> "espn"])
          ELSE /\ espn_requests' = espn_requests
               /\ reply' = ExceptException(
                               [status |-> 400,
                                detail |-> "Type must be 'driver' or 'constructor'"])
    /\ UNCHANGED <<request, fastf1_practice_results, storeVars, cacheVars>>

StandingsInit ==
    /\ EmptyStore
    /\ request \in [type : StandingsTypes, year : PointYears]
    /\ reply = NoReply
    /\ espn_requests = 0
    /\ fastf1_practice_results = {}
    /\ now = 0
    /\ driver_standings = {}
    /\ sessions = {}
    /\ lap_times = {}
    /\ telemetry_data = {}
    /\ handlers = <<>>

StandingsNext == GetStandings

StandingsSpec == StandingsInit /\ [][StandingsNext]_vars

---------------------------------------------------------------------------
(* The backend's SQLite cache: CacheService and the endpoints reading through it *)

\* cache_service = CacheService(cache_ttl_hours=24): the time to live, in hours.
cache_ttl == 24

\* The clock advances by half a time to live, so that entries are seen younger
\* than the time to live, exactly as old, and older; it stops at MaxNow.
TickHours == 12
MaxNow == 48

Tick ==
    /\ now + TickHours <= MaxNow
    /\ now' = now + TickHours
    /\ UNCHANGED <<driver_standings, sessions, lap_times, telemetry_data, handlers,
                   storeVars, espnVars>>

is_cache_valid_inclusive(cached_at) ==
    IF cached_at = NULL THEN FALSE ELSE now - cached_at <= cache_ttl

\* _is_cache_valid(cached_at)
is_cache_valid(cached_at) ==
    IF cached_at = NULL THEN FALSE ELSE now - cached_at < cache_ttl

\* The seasons asked for, and what ESPN answers: a document without the key
\* "standings", or one whose "standings" lists entries by rank, possibly none and
\* possibly two of one rank.
CacheYears == {2023, 2024}
StandingsLists ==
    { <<>>,
      <<[rank |-> 1, name |-> "ALO"]>>,
      <<[rank |-> 1, name |-> "BOT"], [rank |-> 2, name |-> "ALO"]>>,
      <<[rank |-> 1, name |-> "ALO"], [rank |-> 1, name |-> "BOT"]>> }
EspnData == {[standings |-> s] : s \in StandingsLists} \cup {[sports |-> <<>>]}

\* Python's None where a document (a dict) is expected.
NoDocument == [none |-> TRUE]

\* Query.first() on an empty result.
NoRow == [year |-> NULL, position |-> NULL, driver_name |-> None, cached_at |-> NULL]

\* db.query(DriverStanding).filter(DriverStanding.year == year)
StandingsOfYear(y) == {r \in driver_standings : r.year = y}

\* .first() of that query: some row of the year, in no stated order.
FirstStandings(y) == IF StandingsOfYear(y) = {} THEN {NoRow} ELSE StandingsOfYear(y)

\* .order_by(DriverStanding.position).all(), rebuilt in ESPN's format.
RECURSIVE StandingsList(_)
StandingsList(rows) ==
    IF rows = {} THEN <<>>
    ELSE LET s == CHOOSE r \in rows : \A q \in rows : r.position <= q.position
         IN <<[rank |-> s.position, name |-> s.driver_name]>>
                \o StandingsList(rows \ {s})

\* CacheService.get_driver_standings(year), `first` being the row .first() gave.
get_driver_standings(y, first) ==
    IF first = NoRow \/ ~is_cache_valid(first.cached_at)
    THEN NoDocument
    ELSE [standings |-> StandingsList(StandingsOfYear(y))]

set_driver_standings_without_rollback(y, espn_data) ==
    LET entries == IF "standings" \in DOMAIN espn_data THEN espn_data.standings ELSE <<>>
        kept == {r \in driver_standings : r.year # y}
        added == {[year |-> y, position |-> entries[i].rank,
                   driver_name |-> entries[i].name, cached_at |-> now]
                    : i \in DOMAIN entries}
        uq_year_position ==
            /\ \A i, j \in DOMAIN entries : entries[i].rank = entries[j].rank => i = j
            /\ \A a \in added, r \in kept :
                  ~(a.year = r.year /\ a.position = r.position)
    IN IF uq_year_position
       THEN [raised |-> FALSE, rows |-> kept \cup added]
       ELSE [raised |-> TRUE, rows |-> kept]

set_driver_standings_without_delete(y, espn_data) ==
    LET entries == IF "standings" \in DOMAIN espn_data THEN espn_data.standings ELSE <<>>
        kept == driver_standings
        added == {[year |-> y, position |-> entries[i].rank,
                   driver_name |-> entries[i].name, cached_at |-> now]
                    : i \in DOMAIN entries}
        uq_year_position ==
            /\ \A i, j \in DOMAIN entries : entries[i].rank = entries[j].rank => i = j
            /\ \A a \in added, r \in kept :
                  ~(a.year = r.year /\ a.position = r.position)
    IN IF uq_year_position
       THEN [raised |-> FALSE, rows |-> kept \cup added]
       ELSE [raised |-> TRUE, rows |-> driver_standings]

\* CacheService.set_driver_standings(year, espn_data): the rows of the year are
\* deleted, one row per entry is added, and the commit fails on two rows of one
\* (year, position); every failure is rolled back and raised again.
set_driver_standings(y, espn_data) ==
    LET entries == IF "standings" \in DOMAIN espn_data THEN espn_data.standings ELSE <<>>
        kept == {r \in driver_standings : r.year # y}
        added == {[year |-> y, position |-> entries[i].rank,
                   driver_name |-> entries[i].name, cached_at |-> now]
                    : i \in DOMAIN entries}
        uq_year_position ==
            /\ \A i, j \in DOMAIN entries : entries[i].rank = entries[j].rank => i = j
            /\ \A a \in added, r \in kept :
                  ~(a.year = r.year /\ a.position = r.position)
    IN IF uq_year_position
       THEN [raised |-> FALSE, rows |-> kept \cup added]
       ELSE [raised |-> TRUE, rows |-> driver_standings]

\* The request handlers the event loop runs side by side.
Handlers == {1, 2}
Waiting == [pc |-> "idle"]

\* GET /standings/drivers up to its await: the cached document is returned if
\* there is one, otherwise the request to ESPN is sent.
GetDriverStandings(h, y) ==
    /\ handlers[h].pc = "idle"
    /\ \E first \in FirstStandings(y) :
          LET cached_data == get_driver_standings(y, first)
          IN IF cached_data # NoDocument
             THEN /\ handlers' = [handlers EXCEPT ![h] =
                        [pc |-> "done", kind |-> "standings", year |-> y,
                         asked |-> now, at |-> now, espn |-> 0, status |-> 200,
                         source |-> "cache", fetched |-> NoDocument,
                         data |-> cached_data]]
                  /\ espn_requests' = espn_requests
             ELSE /\ handlers' = [handlers EXCEPT ![h] =
                        [pc |-> "await", kind |-> "standings", year |-> y,
                         asked |-> now, at |-> now, espn |-> 1]]
                  /\ espn_requests' = espn_requests + 1
    /\ UNCHANGED <<now, driver_standings, sessions, lap_times, telemetry_data,
                   storeVars, request, reply, fastf1_practice_results>>

\* GET /standings/drivers from its await on: ESPN's document is stored and
\* returned; an exception of the fetch or of the setter is answered with 500.
ResumeDriverStandings(h) ==
    /\ handlers[h].pc = "await"
    /\ handlers[h].kind = "standings"
    /\ \/ /\ handlers' = [handlers EXCEPT ![h] =
                [pc |-> "done", kind |-> "standings", year |-> handlers[h].year,
                 asked |-> handlers[h].asked, at |-> now, espn |-> handlers[h].espn,
                 status |-> 500, source |-> "fetch raised", fetched |-> NoDocument,
                 data |-> NoDocument]]
          /\ UNCHANGED driver_standings
       \/ \E espn_data \in EspnData :
             LET stored == set_driver_standings(handlers[h].year, espn_data)
             IN /\ driver_standings' = stored.rows
                /\ handlers' = [handlers EXCEPT ![h] =
                      [pc |-> "done", kind |-> "standings", year |-> handlers[h].year,
                       asked |-> handlers[h].asked, at |-> now,
                       espn |-> handlers[h].espn, fetched |-> espn_data,
                       status |-> IF stored.raised THEN 500 ELSE 200,
                       source |-> IF stored.raised THEN "setter raised" ELSE "espn",
                       data |-> IF stored.raised THEN NoDocument ELSE espn_data]]
    /\ UNCHANGED <<now, sessions, lap_times, telemetry_data, storeVars, espnVars>>

\* Query.first() on the sessions of one (year, race, session_type): no row, or
\* some row of that key.  One session is asked for, by laps and by telemetry.
NoSession == [id |-> NULL, year |-> 2024, race |-> "1", session_type |-> "R",
              cached_at |-> NULL]
FirstSessions ==
    LET found == {s \in sessions : s.year = NoSession.year /\ s.race = NoSession.race
                                    /\ s.session_type = NoSession.session_type}
    IN IF found = {} THEN {NoSession} ELSE found

\* _get_or_create_session: the row found, or a new row whose cached_at is the
\* column's default, utcnow().
get_or_create_session(first) ==
    IF first # NoSession THEN first
    ELSE [NoSession EXCEPT !.id = Cardinality(sessions) + 1, !.cached_at = now]

\* CacheService.get_lap_times(year, race, session_type, driver): the driver's
\* rows, if the session row is valid and there are any.
get_lap_times(first, driver) ==
    LET laps == {l \in lap_times : l.session_id = first.id /\ l.driver = driver}
    IN IF first = NoSession \/ ~is_cache_valid(first.cached_at) \/ laps = {}
       THEN NoDocument
       ELSE [driver |-> driver, laps |-> laps]

\* CacheService.set_lap_times for the laps of one driver: the session row's
\* cached_at is set to utcnow(), the driver's rows are replaced.
set_lap_times(first, driver) ==
    LET session == get_or_create_session(first)
    IN [sessions |-> (sessions \ {first}) \cup {[session EXCEPT !.cached_at = now]},
        lap_times |-> {l \in lap_times :
                          ~(l.session_id = session.id /\ l.driver = driver)}
                      \cup {[session_id |-> session.id, driver |-> driver,
                             lap_number |-> 1, cached_at |-> now]}]

\* CacheService.get_telemetry(year, race, session_type, driver, lap_number)
get_telemetry(first, driver) ==
    LET telemetry == {t \in telemetry_data : t.session_id = first.id
                                              /\ t.driver = driver /\ t.lap_number = 1}
    IN IF first = NoSession \/ ~is_cache_valid(first.cached_at) \/ telemetry = {}
       THEN NoDocument
       ELSE [driver |-> driver, telemetry |-> telemetry]

\* CacheService.set_telemetry: the session row is found or created and left as
\* it is, the telemetry row of the driver's lap is replaced.
set_telemetry(first, driver) ==
    LET session == get_or_create_session(first)
    IN [sessions |-> (sessions \ {first}) \cup {session},
        telemetry_data |-> {t \in telemetry_data :
                               ~(t.session_id = session.id /\ t.driver = driver
                                    /\ t.lap_number = 1)}
                           \cup {[session_id |-> session.id, driver |-> driver,
                                  lap_number |-> 1, cached_at |-> now]}]

\* GET /session/{year}/{race}/{session_type}/laps?driver=...: the handler has
\* no await, so the event loop runs it in one piece.  FastF1 may raise.
GetLapTimes(h, driver) ==
    /\ handlers[h].pc = "idle"
    /\ \E first \in FirstSessions :
          LET cached_laps == get_lap_times(first, driver)
              stored == set_lap_times(first, driver)
              done == [pc |-> "done", kind |-> "laps", driver |-> driver, at |-> now]
          IN \/ /\ cached_laps # NoDocument
                /\ handlers' = [handlers EXCEPT ![h] =
                        done @@ [status |-> 200, source |-> "cache", data |-> cached_laps]]
                /\ UNCHANGED <<sessions, lap_times>>
             \/ /\ cached_laps = NoDocument
                /\ handlers' = [handlers EXCEPT ![h] =
                        done @@ [status |-> 200, source |-> "fastf1",
                                 data |-> [driver |-> driver, laps |-> {}]]]
                /\ sessions' = stored.sessions
                /\ lap_times' = stored.lap_times
             \/ /\ cached_laps = NoDocument
                /\ handlers' = [handlers EXCEPT ![h] =
                        done @@ [status |-> 500, source |-> "fetch raised",
                                 data |-> NoDocument]]
                /\ UNCHANGED <<sessions, lap_times>>
    /\ UNCHANGED <<now, driver_standings, telemetry_data, storeVars, espnVars>>

\* GET /session/{year}/{race}/{session_type}/telemetry?driver=...&lap=1,
\* likewise without an await.
GetTelemetry(h, driver) ==
    /\ handlers[h].pc = "idle"
    /\ \E first \in FirstSessions :
          LET cached_telemetry == get_telemetry(first, driver)
              stored == set_telemetry(first, driver)
              done == [pc |-> "done", kind |-> "telemetry", driver |-> driver, at |-> now]
          IN \/ /\ cached_telemetry # NoDocument
                /\ handlers' = [handlers EXCEPT ![h] =
                        done @@ [status |-> 200, source |-> "cache",
                                 data |-> cached_telemetry]]
                /\ UNCHANGED <<sessions, telemetry_data>>
             \/ /\ cached_telemetry = NoDocument
                /\ handlers' = [handlers EXCEPT ![h] =
                        done @@ [status |-> 200, source |-> "fastf1",
                                 data |-> [driver |-> driver, telemetry |-> {}]]]
                /\ sessions' = stored.sessions
                /\ telemetry_data' = stored.telemetry_data
             \/ /\ cached_telemetry = NoDocument
                /\ handlers' = [handlers EXCEPT ![h] =
                        done @@ [status |-> 500, source |-> "fetch raised",
                                 data |-> NoDocument]]
                /\ UNCHANGED <<sessions, telemetry_data>>
    /\ UNCHANGED <<now, driver_standings, lap_times, storeVars, espnVars>>

CacheInit ==
    /\ EmptyStore
    /\ request = NoRequest
    /\ reply = NoReply
    /\ espn_requests = 0
    /\ fastf1_practice_results = {}
    /\ now = 0
    /\ driver_standings = {}
    /\ sessions = {}
    /\ lap_times = {}
    /\ telemetry_data = {}
    /\ handlers = [h \in Handlers |-> Waiting]

CacheNext ==
    \/ Tick
    \/ \E h \in Handlers, y \in CacheYears : GetDriverStandings(h, y)
    \/ \E h \in Handlers : ResumeDriverStandings(h)
    \/ \E h \in Handlers, driver \in Drivers : GetLapTimes(h, driver)
    \/ \E h \in Handlers, driver \in Drivers : GetTelemetry(h, driver)

CacheSpec == CacheInit /\ [][CacheNext]_vars

---------------------------------------------------------------------------
(* GET /fastf1/practice/{year}/{round_number}: get_practice_results *)

\* The practice sessions of a round, and what loading one from FastF1 gives:
\* laps of a driver, a session without a timed lap, or an exception.
PracticeSessions == {"FP1", "FP2", "FP3"}
LoadOutcomes == {"laps", "no laps", "raises"}

\* load_session_from_db(session_name): the stored results of the session.
load_session_from_db(session_name) ==
    {r.driver_abbreviation : r \in
        {q \in fastf1_practice_results :
            /\ q.year = request.year
            /\ q.round_number = request.round_number
            /\ q.session_name = session_name}}

\* get_practice_results(year, round_number).  With any row of the round in the
\* table the three sessions are read from the table; otherwise each session is
\* loaded from FastF1, its results are saved, and a session that raises is
\* answered as an empty list.
GetPracticeResults ==
    /\ request # NoRequest
    /\ LET has_data == \E r \in fastf1_practice_results :
                           r.year = request.year /\ r.round_number = request.round_number
       IN IF has_data
          THEN /\ reply' = [status |-> 200, source |-> "database",
                            attempted |-> {}, failed |-> {},
                            results |-> [s \in PracticeSessions |-> load_session_from_db(s)]]
               /\ UNCHANGED fastf1_practice_results
          ELSE \E outcome \in [PracticeSessions -> LoadOutcomes] :
                  LET fastest(s) == IF outcome[s] = "laps" THEN {"ALO"} ELSE {}
                  IN /\ fastf1_practice_results' = fastf1_practice_results \cup
                            {[year |-> request.year, round_number |-> request.round_number,
                              session_name |-> s, driver_abbreviation |-> d]
                                : <<s, d>> \in {<<s, d>> \in PracticeSessions \X Drivers :
                                                  d \in fastest(s)}}
                     /\ reply' = [status |-> 200, source |-> "fastf1",
                                  attempted |-> PracticeSessions,
                                  failed |-> {s \in PracticeSessions : outcome[s] = "raises"},
                                  results |-> [s \in PracticeSessions |-> fastest(s)]]
    /\ UNCHANGED <<request, espn_requests, storeVars, cacheVars>>

PracticeInit ==
    /\ EmptyStore
    /\ request \in [type : {"practice"}, year : CacheYears, round_number : {1, 2}]
    /\ reply = NoReply
    /\ espn_requests = 0
    /\ fastf1_practice_results = {}
    /\ now = 0
    /\ driver_standings = {}
    /\ sessions = {}
    /\ lap_times = {}
    /\ telemetry_data = {}
    /\ handlers = <<>>

PracticeNext == GetPracticeResults

PracticeSpec == PracticeInit /\ [][PracticeNext]_vars

---------------------------------------------------------------------------
(* What the specification states, in its own terms *)

\* The race points table of a year, by the bands of the specification.
StatedRaceTable(y) ==
    CASE y >= 2010 -> <<25, 18, 15, 12, 10, 8, 6, 4, 2, 1>>
      [] y \in 2003..2009 -> <<10, 8, 6, 5, 4, 3, 2, 1>>
      [] y \in 1991..2002 -> <<10, 6, 4, 3, 2, 1>>
      [] y \in 1961..1990 -> <<9, 6, 4, 3, 2, 1>>
      [] y = 1960 -> <<8, 6, 4, 3, 2, 1>>
      [] y <= 1959 -> <<8, 6, 4, 3, 2>>

StatedRaceBase(y, position) ==
    IF position \in 1..Len(StatedRaceTable(y)) THEN StatedRaceTable(y)[position] ELSE 0

\* Whether a Race entry earns the fastest-lap point.
StatedBonus(y, position, fastest_lap) ==
    /\ fastest_lap
    /\ position /= NULL
    /\ (y <= 1959 \/ (y >= 2019 /\ position <= 10))

StatedSprintPoints(y, position) ==
    IF y >= 2021 /\ position \in 1..8 THEN 9 - position ELSE 0

\* The point value of one Race or Sprint entry.
StatedEntryPoints(y, r) ==
    IF r.session_type = "Race"
    THEN StatedRaceBase(y, r.position)
            + (IF StatedBonus(y, r.position, r.fastest_lap) THEN 1 ELSE 0)
    ELSE StatedSprintPoints(y, r.position)

\* Twice the point value of an entry when half-points races count half: the
\* table value is halved, the fastest-lap point is added afterwards.
StatedEntryPointsTwice(y, r) ==
    IF r.session_type = "Race" /\ is_half_points_race(y, r.round_number)
    THEN StatedRaceBase(y, r.position)
            + (IF StatedBonus(y, r.position, r.fastest_lap) THEN 2 ELSE 0)
    ELSE 2 * StatedEntryPoints(y, r)

RECURSIVE SumOfEntries(_, _)
SumOfEntries(y, rows) ==
    IF rows = {} THEN 0
    ELSE LET r == CHOOSE x \in rows : TRUE
         IN  StatedEntryPoints(y, r) + SumOfEntries(y, rows \ {r})

RECURSIVE SumOfEntriesTwice(_, _)
SumOfEntriesTwice(y, rows) ==
    IF rows = {} THEN 0
    ELSE LET r == CHOOSE x \in rows : TRUE
         IN  StatedEntryPointsTwice(y, r) + SumOfEntriesTwice(y, rows \ {r})

\* A driver's Race and Sprint entries of a round.
EntriesOf(d, rn) ==
    {r \in session_results :
        r.driver_id = d /\ r.round_number = rn /\ r.session_type \in {"Race", "Sprint Race"}}

\* A team's Race and Sprint entries of a round.
TeamEntriesOf(t, rn) ==
    {r \in session_results :
        r.team_id = t /\ r.round_number = rn /\ r.session_type \in {"Race", "Sprint Race"}}

\* The sum of the points shown in a raceResults list (None shows no points).
RECURSIVE SumShown(_, _)
SumShown(rr, n) ==
    IF n = 0 THEN 0
    ELSE SumShown(rr, n - 1) + (IF rr[n].points = NULL THEN 0 ELSE rr[n].points)

Reported == response.status = 200
DriverRowsOut == response.body.driverResults
ConstructorRowsOut == response.body.constructorResults
MetadataOut == response.body.raceMetadata

\* The position of a round in the calendar, counted from 1.
CalendarIndex(rn) == Cardinality({c \in races : c.round_number <= rn})

---------------------------------------------------------------------------
(* Claims *)

\* C1: in the season report, a driver with at least one Race or Sprint entry in
\* a round has exactly one row, that row has exactly one raceResults entry for
\* the round, and its points is the sum, from 0, of the point values of the
\* driver's Race and Sprint entries of the round.
C1_RoundPointsSumEntries ==
    Reported =>
        \A d \in Drivers : \A rn \in RoundsOf(races) :
            EntriesOf(d, rn) /= {} =>
                /\ Cardinality({i \in 1..Len(DriverRowsOut) :
                                    DriverRowsOut[i].driverAbbreviation = d}) = 1
                /\ \A i \in 1..Len(DriverRowsOut) :
                      DriverRowsOut[i].driverAbbreviation = d =>
                        LET rr == DriverRowsOut[i].raceResults
                        IN  /\ Cardinality({j \in 1..Len(rr) : rr[j].roundNumber = rn}) = 1
                            /\ \A j \in 1..Len(rr) :
                                  rr[j].roundNumber = rn =>
                                    rr[j].points = SumOfEntries(year, EntriesOf(d, rn))

\* A driver with a Race and a Sprint entry in one round, both scoring.
C1_Witness ==
    /\ Reported
    /\ \E d \in Drivers : \E rn \in RoundsOf(races) :
          /\ Cardinality(EntriesOf(d, rn)) = 2
          /\ \A r \in EntriesOf(d, rn) : StatedEntryPoints(year, r) > 0
          /\ \E i \in 1..Len(DriverRowsOut) :
                /\ DriverRowsOut[i].driverAbbreviation = d
                /\ DriverRowsOut[i].totalPoints > 25

\* C2: the race points table used for a year is the band's table for every
\* year, years before 1950 included, and a position outside the table's keys
\* (or NULL) scores 0.
C2_RaceTableByYear ==
    (awarded.done /\ entry.session_type = "Race") =>
        awarded.base = StatedRaceBase(year, entry.position)

\* The fallback band is used for a year before 1950.
C2_Witness ==
    /\ awarded.done
    /\ entry.session_type = "Race"
    /\ year = 1949
    /\ entry.position = 5
    /\ awarded.base = 2

\* C3: a Race entry earns the fastest-lap point exactly when it is flagged, its
\* position is not NULL, and year <= 1959 (any position) or year >= 2019 with
\* position <= 10.
C3_FastestLapBonus ==
    (awarded.done /\ entry.session_type = "Race") =>
        /\ awarded.points - awarded.base \in {0, 1}
        /\ awarded.points - awarded.base = 1
              <=> StatedBonus(year, entry.position, entry.fastest_lap)
        /\ (year = 1955 /\ entry.position = 7 /\ entry.fastest_lap) => awarded.points = 1
        /\ (year = 2023 /\ entry.position = 1 /\ entry.fastest_lap) => awarded.points = 26

\* 1955, P7 with the fastest lap: 0 + 1.
C3_Witness ==
    /\ awarded.done
    /\ entry.session_type = "Race"
    /\ year = 1955
    /\ entry.position = 7
    /\ entry.fastest_lap
    /\ awarded.points = 1

\* C4: a Race entry of a half-points race (1984 round 6, 2021 round 12) counts
\* half its table value, the fastest-lap point added after halving, towards the
\* driver's round and season totals (stated on twice the points).
C4_HalfPointsInReport ==
    Reported =>
        \A i \in 1..Len(DriverRowsOut) :
            LET d == DriverRowsOut[i].driverAbbreviation
                rr == DriverRowsOut[i].raceResults
            IN  /\ \A j \in 1..Len(rr) :
                      rr[j].points /= NULL =>
                        2 * rr[j].points
                            = SumOfEntriesTwice(year, EntriesOf(d, rr[j].roundNumber))
                /\ 2 * DriverRowsOut[i].totalPoints
                      = SumOfEntriesTwice(year,
                            {r \in session_results : r.driver_id = d
                                /\ r.session_type \in {"Race", "Sprint Race"}})

\* C5: a Sprint entry scores the sprint table value of its position from 2021
\* on, 0 for a NULL or off-table position, and 0 in every year before 2021.
C5_SprintPoints ==
    (awarded.done /\ entry.session_type = "Sprint Race") =>
        awarded.points = StatedSprintPoints(year, entry.position)

\* 2020, sprint P1: no points.
C5_Witness ==
    /\ awarded.done
    /\ entry.session_type = "Sprint Race"
    /\ year = 2020
    /\ entry.position = 1
    /\ awarded.points = 0

\* C6: every driver's raceResults has one entry per races row of the year, in
\* ascending round order, whether or not the driver took part.
C6_DriverCoverage ==
    Reported =>
        \A i \in 1..Len(DriverRowsOut) :
            LET rr == DriverRowsOut[i].raceResults
            IN  /\ Len(rr) = Cardinality(races)
                /\ \A j \in 1..Len(rr) :
                      /\ rr[j].roundNumber \in RoundsOf(races)
                      /\ CalendarIndex(rr[j].roundNumber) = j
                /\ \A j \in 1..(Len(rr) - 1) : rr[j].roundNumber < rr[j + 1].roundNumber

\* A driver who entered the second round only has two entries, the first None.
C6_Witness ==
    /\ Reported
    /\ Cardinality(races) = 2
    /\ \E i \in 1..Len(DriverRowsOut) :
          LET rr == DriverRowsOut[i].raceResults
          IN  /\ Len(rr) = 2
              /\ rr[1].points = NULL
              /\ rr[2].points /= NULL

\* C7: every constructor's raceResults has one entry per calendar round, in
\* calendar order, rounds without an entry of the team included (points None).
C7_ConstructorCoverage ==
    Reported =>
        \A i \in 1..Len(ConstructorRowsOut) :
            LET rr == ConstructorRowsOut[i].raceResults
            IN  /\ Len(rr) = Cardinality(races)
                /\ \A j \in 1..Len(rr) :
                      /\ CalendarIndex(rr[j].roundNumber) = j
                      /\ (TeamEntriesOf(ConstructorRowsOut[i].teamName, rr[j].roundNumber) = {}
                            => rr[j].points = NULL)

\* C8: totalPoints of every driver row and constructor row is the sum of the
\* points of the row's raceResults entries whose points is not None.
C8_TotalIsSumOfShown ==
    Reported =>
        /\ \A i \in 1..Len(DriverRowsOut) :
              DriverRowsOut[i].totalPoints
                = SumShown(DriverRowsOut[i].raceResults, Len(DriverRowsOut[i].raceResults))
        /\ \A i \in 1..Len(ConstructorRowsOut) :
              ConstructorRowsOut[i].totalPoints
                = SumShown(ConstructorRowsOut[i].raceResults,
                           Len(ConstructorRowsOut[i].raceResults))

\* A driver row with points in the first round and a None round beside it, and
\* a constructor row with points.
C8_Witness ==
    /\ Reported
    /\ \E i \in 1..Len(DriverRowsOut) :
          LET rr == DriverRowsOut[i].raceResults
          IN  /\ Len(rr) = 2
              /\ rr[1].points > 0
              /\ rr[2].points = NULL
              /\ DriverRowsOut[i].totalPoints = rr[1].points
    /\ \E i \in 1..Len(ConstructorRowsOut) : ConstructorRowsOut[i].totalPoints > 0

\* C9: for a driver of driverResults and a calendar round without a Race or
\* Sprint entry of the driver, the raceResults entry of the round has points
\* None and the round's eventName and country, and raceMetadata of the round
\* reports a position-1 driver of the round's Race when there is one.
C9_AbsentRoundIsNone ==
    Reported =>
        \A i \in 1..Len(DriverRowsOut) : \A c \in races :
            EntriesOf(DriverRowsOut[i].driverAbbreviation, c.round_number) = {} =>
                LET j == CalendarIndex(c.round_number)
                    shown == DriverRowsOut[i].raceResults[j]
                    winners == PositionOneDrivers(session_results, "Race", c.round_number)
                IN  /\ j \in 1..Len(DriverRowsOut[i].raceResults)
                    /\ j \in 1..Len(MetadataOut)
                    /\ shown.roundNumber = c.round_number
                    /\ shown.points = NULL
                    /\ shown.eventName = c.event_name
                    /\ shown.country = c.country
                    /\ MetadataOut[j].roundNumber = c.round_number
                    /\ winners /= {} => MetadataOut[j].raceWinner \in winners
                    /\ winners = {} => MetadataOut[j].raceWinner = None

\* A driver absent from a round that another driver won.
C9_Witness ==
    /\ Reported
    /\ \E i \in 1..Len(DriverRowsOut) : \E j \in 1..Len(MetadataOut) :
          /\ Len(DriverRowsOut[i].raceResults) = Len(MetadataOut)
          /\ DriverRowsOut[i].raceResults[j].points = NULL
          /\ MetadataOut[j].raceWinner /= None
          /\ MetadataOut[j].raceWinner /= DriverRowsOut[i].driverAbbreviation

\* C10: driverResults and constructorResults are each in non-increasing order
\* of totalPoints.
C10_SortedByTotal ==
    Reported =>
        /\ \A i \in 1..(Len(DriverRowsOut) - 1) :
              DriverRowsOut[i].totalPoints >= DriverRowsOut[i + 1].totalPoints
        /\ \A i \in 1..(Len(ConstructorRowsOut) - 1) :
              ConstructorRowsOut[i].totalPoints >= ConstructorRowsOut[i + 1].totalPoints

\* Both lists were reordered: the later name leads with more points.
C10_Witness ==
    /\ Reported
    /\ Len(DriverRowsOut) = 2
    /\ DriverRowsOut[1].driverAbbreviation = DriverOrder[2]
    /\ DriverRowsOut[1].totalPoints > DriverRowsOut[2].totalPoints
    /\ Len(ConstructorRowsOut) = 2
    /\ ConstructorRowsOut[1].teamName = TeamOrder[2]
    /\ ConstructorRowsOut[1].totalPoints > ConstructorRowsOut[2].totalPoints

\* The season total of a driver in the driver_points rows.
TotalIn(dp, d) == (CHOOSE row \in dp : row.driver_id = d).total_points

\* C11: the championship position of a driver is 1 + the number of drivers
\* whose season total is strictly greater, so drivers of equal totals share a
\* position and the next position is skipped (1, 1, 3).
C11_CompetitionRanking ==
    \A d \in DOMAIN championship_position :
        /\ championship_position[d]
              = 1 + Cardinality({o \in RankDrivers :
                                    TotalIn(driver_points, o) > TotalIn(driver_points, d)})
        /\ \A o \in DOMAIN championship_position :
              /\ TotalIn(driver_points, o) = TotalIn(driver_points, d)
                    => championship_position[o] = championship_position[d]
              /\ TotalIn(driver_points, o) > TotalIn(driver_points, d)
                    => championship_position[o] < championship_position[d]

\* Two drivers tie for the lead and the third is third.
C11_Witness ==
    /\ DOMAIN championship_position = RankDrivers
    /\ championship_position["ALO"] = 1
    /\ championship_position["BOT"] = 1
    /\ championship_position["COU"] = 3

\* C12: a Qualifying row never scores.  In a report, a driver whose only row of
\* a round is a Qualifying row has points None for the round (and no row at all
\* without any Race or Sprint row in the season); a round with further rows
\* shows the sum of the Race and Sprint rows only; a Qualifying position 1
\* appears as the round's polePosition.
C12_QualifyingNeverScores ==
    Reported =>
        \A q \in {r \in session_results : r.session_type = "Qualifying"} :
            LET d == q.driver_id
                j == CalendarIndex(q.round_number)
                scored == EntriesOf(d, q.round_number)
            IN  /\ (\A rn \in RoundsOf(races) : EntriesOf(d, rn) = {}) =>
                        ~ \E i \in 1..Len(DriverRowsOut) : DriverRowsOut[i].driverAbbreviation = d
                /\ \A i \in 1..Len(DriverRowsOut) :
                        DriverRowsOut[i].driverAbbreviation = d =>
                            /\ scored = {} => DriverRowsOut[i].raceResults[j].points = NULL
                            /\ scored /= {} =>
                                DriverRowsOut[i].raceResults[j].points = SumOfEntries(year, scored)
                /\ q.position = 1 =>
                        MetadataOut[j].polePosition
                            \in PositionOneDrivers(session_results, "Qualifying", q.round_number)

\* A driver of the report took pole in a round without racing in it.
C12_Witness ==
    /\ Reported
    /\ \E q \in session_results : \E i \in 1..Len(DriverRowsOut) :
          /\ q.session_type = "Qualifying"
          /\ q.position = 1
          /\ EntriesOf(q.driver_id, q.round_number) = {}
          /\ DriverRowsOut[i].driverAbbreviation = q.driver_id
          /\ DriverRowsOut[i].totalPoints > 0
          /\ DriverRowsOut[i].raceResults[CalendarIndex(q.round_number)].points = NULL
          /\ MetadataOut[CalendarIndex(q.round_number)].polePosition = q.driver_id

\* The drivers with a Race or Sprint row and no Race row.
WithoutRaceRow ==
    {r.driver_id : r \in {x \in session_results : x.session_type = "Sprint Race"}}
        \ {r.driver_id : r \in {x \in session_results : x.session_type = "Race"}}

\* C13: a Race or Sprint row with a NULL position adds exactly 0 points to its
\* round, fastest lap flagged or not, and no error comes of it: the handler
\* answers 500 only when some driver has no Race row, and in a report the
\* driver's entry of the round has a points value, the sum of the round's other
\* rows.
C13_NullPositionScoresZero ==
    response /= NoResponse =>
        /\ response.status = 500 => WithoutRaceRow /= {}
        /\ Reported =>
            \A r \in session_results :
                (r.session_type \in {"Race", "Sprint Race"} /\ r.position = NULL) =>
                    \E i \in 1..Len(DriverRowsOut) :
                        LET shown == DriverRowsOut[i].raceResults[CalendarIndex(r.round_number)]
                        IN  /\ DriverRowsOut[i].driverAbbreviation = r.driver_id
                            /\ shown.roundNumber = r.round_number
                            /\ shown.points /= NULL
                            /\ shown.points
                                  = SumOfEntries(year, EntriesOf(r.driver_id, r.round_number) \ {r})

\* A Race row without a position and with the fastest lap, in a year of the
\* fastest-lap point, and a Sprint row without a position, both reported.
C13_Witness ==
    /\ Reported
    /\ has_fastest_lap_point(year)
    /\ \E r \in session_results : \E q \in session_results :
          /\ r.session_type = "Race" /\ r.position = NULL /\ r.fastest_lap
          /\ q.session_type = "Sprint Race" /\ q.position = NULL
          /\ q.driver_id = r.driver_id
          /\ \E i \in 1..Len(DriverRowsOut) :
                /\ DriverRowsOut[i].driverAbbreviation = r.driver_id
                /\ DriverRowsOut[i].raceResults[CalendarIndex(r.round_number)].points = 0
                /\ DriverRowsOut[i].raceResults[CalendarIndex(q.round_number)].points = 0

\* C14: a driver with Race or Sprint rows and no entry in the drivers map (the
\* map holds the drivers with a Race row) is still a row of driverResults, and
\* the report is produced: one row per driver with a Race or Sprint row.
C14_DriverWithoutInfoEmitted ==
    (response /= NoResponse /\ WithoutRaceRow /= {}) =>
        /\ Reported
        /\ Len(DriverRowsOut)
              = Cardinality({r.driver_id : r \in {x \in session_results :
                                x.session_type \in {"Race", "Sprint Race"}}})

\* The drivers placed first in a session of a round, read from the store.
FirstOf(kind, rn) ==
    {d \in Drivers : \E r \in session_results :
        /\ r.driver_id = d /\ r.round_number = rn
        /\ r.session_type = kind /\ r.position = 1}

\* C15: raceMetadata has one entry per races row of the season, in round order;
\* raceWinner, polePosition and sprintWinner of a round are drivers placed first
\* in the round's Race, Qualifying and Sprint Race, and each is None when the
\* session has no position-1 row (all three for a round without rows).
C15_RaceMetadataPerRound ==
    Reported =>
        /\ Len(MetadataOut) = Cardinality(races)
        /\ \A j \in 1..(Len(MetadataOut) - 1) :
              MetadataOut[j].roundNumber < MetadataOut[j + 1].roundNumber
        /\ \A c \in races :
              LET md == MetadataOut[CalendarIndex(c.round_number)]
                  ok(field, kind) ==
                      IF FirstOf(kind, c.round_number) = {} THEN field = None
                      ELSE field \in FirstOf(kind, c.round_number)
              IN  /\ md.roundNumber = c.round_number
                  /\ md.eventName = c.event_name
                  /\ md.country = c.country
                  /\ ok(md.raceWinner, "Race")
                  /\ ok(md.polePosition, "Qualifying")
                  /\ ok(md.sprintWinner, "Sprint Race")

\* One round with a winner and another driver on pole, and a round without rows.
C15_Witness ==
    /\ Reported
    /\ Len(MetadataOut) = 2
    /\ \E j \in 1..2 : \E k \in 1..2 :
          /\ MetadataOut[j].raceWinner /= None
          /\ MetadataOut[j].polePosition /= None
          /\ MetadataOut[j].polePosition /= MetadataOut[j].raceWinner
          /\ MetadataOut[j].sprintWinner = None
          /\ MetadataOut[k].raceWinner = None
          /\ MetadataOut[k].polePosition = None
          /\ MetadataOut[k].sprintWinner = None

\* C18: the descending sorts are stable.  Rows of equal totalPoints are in the
\* order they had before sorting: for drivers the order of the result rows (by
\* display name), for constructors the order of the group rows (by team name).
C18_StableSort ==
    Reported =>
        /\ \A i \in 1..Len(DriverRowsOut) : \A j \in 1..Len(DriverRowsOut) :
              (i < j /\ DriverRowsOut[i].totalPoints = DriverRowsOut[j].totalPoints) =>
                  IndexOf(DriverOrder, DriverRowsOut[i].driverName)
                      < IndexOf(DriverOrder, DriverRowsOut[j].driverName)
        /\ \A i \in 1..Len(ConstructorRowsOut) : \A j \in 1..Len(ConstructorRowsOut) :
              (i < j /\ ConstructorRowsOut[i].totalPoints = ConstructorRowsOut[j].totalPoints) =>
                  IndexOf(TeamOrder, ConstructorRowsOut[i].teamName)
                      < IndexOf(TeamOrder, ConstructorRowsOut[j].teamName)

\* Two drivers of two teams with the same positive total.
C18_Witness ==
    /\ Reported
    /\ Len(DriverRowsOut) = 2
    /\ Len(ConstructorRowsOut) = 2
    /\ DriverRowsOut[1].totalPoints = DriverRowsOut[2].totalPoints
    /\ ConstructorRowsOut[1].totalPoints = ConstructorRowsOut[2].totalPoints
    /\ DriverRowsOut[1].totalPoints > 0
    /\ DriverRowsOut[1].driverName = DriverOrder[1]
    /\ ConstructorRowsOut[1].teamName = TeamOrder[1]

\* The classified Race rows of a round, and a team's table points in them.
ClassifiedOf(rn) ==
    {r \in session_results :
        r.session_type = "Race" /\ r.round_number = rn /\ r.position /= NULL}

RECURSIVE SumOfRaceBase(_, _)
SumOfRaceBase(y, rows) ==
    IF rows = {} THEN 0
    ELSE LET r == CHOOSE x \in rows : TRUE
         IN  StatedRaceBase(y, r.position) + SumOfRaceBase(y, rows \ {r})

TeamRoundPoints(t, rn) == SumOfRaceBase(year, {r \in ClassifiedOf(rn) : r.team_id = t})

C17_MalformedRowAborts ==
    (response /= NoResponse /\ \E r \in session_results : r.position = DNF) =>
        response.status = 500

\* A driver's season total by the rule of season.points, in half points.
SeasonTotalTwice(d) == SeasonPointsTwice(year, SeasonResultsQuery(session_results, d))

\* C19: the championship_position of a season of a driver's profile is the
\* driver's rank under the totals reported as season.points: 1 + the number of
\* drivers whose total by that rule (Race and Sprint points, fastest-lap points,
\* half points) is strictly greater.
C19_PositionMatchesSeasonPoints ==
    (profile /= NoProfile /\ profile.status = 200) =>
        \A season \in profile.seasons :
            /\ season.pointsTwice = SeasonTotalTwice(profile.driver.id)
            /\ season.championship_position
                  = 1 + Cardinality({o \in Drivers :
                            SeasonTotalTwice(o) > SeasonTotalTwice(profile.driver.id)})

\* Twice the season totals the three endpoints report for a driver.
TotalsReportedTwice(d) ==
    (IF Reported
     THEN {2 * DriverRowsOut[i].totalPoints :
                i \in {k \in 1..Len(DriverRowsOut) : DriverRowsOut[k].driverAbbreviation = d}}
     ELSE {})
    \cup
    (IF profile /= NoProfile /\ profile.status = 200 /\ profile.driver.id = d
     THEN {season.pointsTwice : season \in profile.seasons}
     ELSE {})
    \cup
    (IF season_drivers.status = 200
     THEN {2 * season_drivers.drivers[i].stats.totalPoints :
                i \in {k \in 1..Len(season_drivers.drivers) :
                            season_drivers.drivers[k].driverId = d}}
     ELSE {})

\* C20: over the same stored rows, season.points of the driver's profile,
\* stats.totalPoints of the season's drivers and totalPoints of the complete
\* standings are the same number for a driver.
C20_SameTotalInThreePlaces ==
    \A d \in Drivers : Cardinality(TotalsReportedTwice(d)) <= 1

\* The sum of the totalPoints of a list of rows.
RECURSIVE SumTotals(_, _)
SumTotals(rows, n) ==
    IF n = 0 THEN 0 ELSE SumTotals(rows, n - 1) + rows[n].totalPoints

\* C21: in the season report, a constructor's points of a round are the sum of
\* the round points of the drivers who drove for the team in the round, and
\* the constructor totals of the season add up to the driver totals.
C21_ConstructorSumsDrivers ==
    Reported =>
        /\ \A i \in 1..Len(ConstructorRowsOut) :
              \A j \in 1..Len(ConstructorRowsOut[i].raceResults) :
                  LET shown == ConstructorRowsOut[i].raceResults[j]
                  IN  shown.points
                        = SumOfEntries(year, TeamEntriesOf(ConstructorRowsOut[i].teamName,
                                                           shown.roundNumber))
        /\ SumTotals(ConstructorRowsOut, Len(ConstructorRowsOut))
              = SumTotals(DriverRowsOut, Len(DriverRowsOut))

\* C22: in the race results, stored points are returned unchanged, a result
\* without a position keeps points None, and a result without stored points
\* and with a position gets the points the standings compute for the Race
\* entry: the year's table value and the fastest-lap point under the year's
\* rule, the years up to 1959 included.
C22_RaceResultPoints ==
    awarded.done =>
        /\ entry.points /= NULL => awarded.points = entry.points
        /\ (entry.points = NULL /\ entry.position = NULL) => awarded.points = NULL
        /\ (entry.points = NULL /\ entry.position /= NULL) =>
                awarded.points = RacePoints(year, entry.position, entry.fastest_lap)

\* C23: the drivers of a season are listed without failure when a driver has a
\* Race row without a position: the row counts as a race entered, with 0
\* points, no win and no podium.
C23_SeasonDriversNullPosition ==
    season_drivers /= NoSeasonDrivers =>
        \A r \in session_results :
            (r.session_type = "Race" /\ r.position = NULL) =>
                /\ season_drivers.status = 200
                /\ \E i \in 1..Len(season_drivers.drivers) :
                      LET listed == season_drivers.drivers[i]
                          others == SeasonResultsQuery(session_results, r.driver_id) \ {r}
                          otherRaces == {o \in others : o.session_type = "Race"}
                      IN  /\ listed.driverId = r.driver_id
                          /\ listed.stats.racesEntered = Cardinality(otherRaces) + 1
                          /\ listed.stats.totalPoints = SumOfEntries(year, others)
                          /\ listed.stats.wins
                                = Cardinality({o \in otherRaces : o.position = 1})
                          /\ listed.stats.podiums
                                = Cardinality({o \in otherRaces :
                                                o.position /= NULL /\ o.position <= 3})

\* C24: a request to /espn/standings/{year} whose type is neither 'driver' nor
\* 'constructor' is answered with HTTP 400 and the message naming the two
\* types, never with a 5xx, and no request is sent to ESPN.
C24_UnknownTypeIs400 ==
    (reply # NoReply /\ request.type \notin {"driver", "constructor"})
        => /\ reply.status = 400
           /\ reply.detail = "Type must be 'driver' or 'constructor'"
           /\ espn_requests = 0

\* The part of C24 that the code does keep: no request reaches ESPN.
C24_NoEspnRequest ==
    (reply # NoReply /\ request.type \notin {"driver", "constructor"})
        => espn_requests = 0

\* C25: a cache getter returns data only while the age of the entry,
\* now - cached_at, is strictly less than the time to live of 24 hours; it
\* returns None when there is no entry, when cached_at is null and when the age
\* is 24 hours or more.
C25_GetterWithinTTL ==
    /\ \A cached_at \in {NULL} \cup (0..now) :
          is_cache_valid(cached_at) <=> (cached_at # NULL /\ now - cached_at < 24)
    /\ \A y \in CacheYears : \A first \in FirstStandings(y) :
          (get_driver_standings(y, first) = NoDocument)
              <=> \/ StandingsOfYear(y) = {}
                  \/ first.cached_at = NULL
                  \/ now - first.cached_at >= 24
    /\ \A h \in Handlers :
          (handlers[h].pc = "done" /\ handlers[h].kind = "standings"
              /\ handlers[h].source = "cache")
          => handlers[h].data # NoDocument

\* An entry exactly 24 hours old is not served: the handler asking for its year
\* at that moment went to ESPN, 24 hours after another handler stored the entry.
C25_Witness ==
    \E h \in Handlers, y \in CacheYears :
        /\ handlers[h].pc = "await"
        /\ handlers[h].year = y
        /\ handlers[h].at = now
        /\ \E r \in StandingsOfYear(y) : now - r.cached_at = 24
        /\ \E g \in Handlers :
              /\ handlers[g].pc = "done"
              /\ handlers[g].source = "espn"
              /\ handlers[g].year = y
              /\ now - handlers[g].at = 24

\* What a request for the standings of year y would be given by the cache now,
\* whichever row .first() returns.
ServedFromCache(y) ==
    \A first \in FirstStandings(y) : get_driver_standings(y, first) # NoDocument

\* C26: /standings/drivers is read-through.  A request answered from the cache
\* sends nothing to ESPN; any other request sends exactly one request to ESPN,
\* and when ESPN delivers a document the document is stored and returned, so
\* that a following request for the same year within the time to live is
\* served from the cache.
C26_ReadThrough ==
    \A h \in Handlers :
        (handlers[h].pc = "done" /\ handlers[h].kind = "standings") =>
            /\ handlers[h].source = "cache" =>
                  (handlers[h].espn = 0 /\ handlers[h].status = 200)
            /\ handlers[h].source # "cache" => handlers[h].espn = 1
            /\ handlers[h].source \in {"espn", "setter raised"} =>
                  /\ handlers[h].status = 200
                  /\ handlers[h].data # NoDocument
                  /\ ((\A g \in Handlers \ {h} : handlers[g].pc = "idle")
                        /\ now - handlers[h].at < 24)
                     => ServedFromCache(handlers[h].year)

\* The part of C26 that the code keeps: a stored document that lists at least
\* one entry is served to the following request within the time to live, and
\* only a request that missed the cache reaches ESPN, once.
C26_StoredEntriesAreServed ==
    \A h \in Handlers :
        (handlers[h].pc = "done" /\ handlers[h].kind = "standings") =>
            /\ handlers[h].espn = (IF handlers[h].source = "cache" THEN 0 ELSE 1)
            /\ (/\ handlers[h].source = "espn"
                /\ "standings" \in DOMAIN handlers[h].data
                /\ handlers[h].data.standings # <<>>
                /\ \A g \in Handlers \ {h} : handlers[g].pc = "idle"
                /\ now - handlers[h].at < 24)
               => ServedFromCache(handlers[h].year)

\* C27: the cache never serves lap-time or telemetry rows stored the time to
\* live ago or earlier, whatever was written for the session since, and the
\* telemetry row a handler wrote with set_telemetry is served by the following
\* get_telemetry within the time to live.
C27_NoStaleSessionData ==
    /\ \A first \in FirstSessions, driver \in Drivers :
          /\ get_lap_times(first, driver) # NoDocument =>
                \A l \in get_lap_times(first, driver).laps : now - l.cached_at < 24
          /\ get_telemetry(first, driver) # NoDocument =>
                \A t \in get_telemetry(first, driver).telemetry : now - t.cached_at < 24
    /\ \A h \in Handlers :
          (/\ handlers[h].pc = "done"
           /\ handlers[h].kind = "telemetry"
           /\ handlers[h].source = "fastf1"
           /\ now - handlers[h].at < 24)
          => \A first \in FirstSessions :
                get_telemetry(first, handlers[h].driver) # NoDocument

\* The first half of C27 alone: no row older than the time to live is served.
C27_NoStaleRowServed ==
    \A first \in FirstSessions, driver \in Drivers :
        /\ get_lap_times(first, driver) # NoDocument =>
              \A l \in get_lap_times(first, driver).laps : now - l.cached_at < 24
        /\ get_telemetry(first, driver) # NoDocument =>
              \A t \in get_telemetry(first, driver).telemetry : now - t.cached_at < 24

\* The second half of C27 alone: telemetry just written is served.
C27_WrittenTelemetryServed ==
    \A h \in Handlers :
        (/\ handlers[h].pc = "done"
         /\ handlers[h].kind = "telemetry"
         /\ handlers[h].source = "fastf1"
         /\ now - handlers[h].at < 24)
        => \A first \in FirstSessions :
              get_telemetry(first, handlers[h].driver) # NoDocument

\* The rows that the entries of a document make for year y when stored now.
RowsOfDocument(y, data) ==
    IF "standings" \in DOMAIN data
    THEN {[year |-> y, position |-> data.standings[i].rank,
           driver_name |-> data.standings[i].name, cached_at |-> now]
            : i \in DOMAIN data.standings}
    ELSE {}

\* The rows a handler stored when it completed, as they were then.
RowsOfYearStoredAt(g) ==
    IF "standings" \in DOMAIN g.data
    THEN {[year |-> g.year, position |-> g.data.standings[i].rank,
           driver_name |-> g.data.standings[i].name, cached_at |-> g.at]
            : i \in DOMAIN g.data.standings}
    ELSE {}

\* C28: set_driver_standings(year, data) is all-or-nothing.  When it succeeds
\* the rows of the year are exactly the entries of data and the rows of every
\* other year are as before; when it raises, as on two entries of one rank,
\* every row cached before is still there and the exception reaches the caller.
C28_SetterAllOrNothing ==
    [][\A h \in Handlers :
          (handlers[h].pc = "await" /\ handlers'[h].pc = "done") =>
              LET y == handlers[h].year
                  after == handlers'[h]
              IN /\ after.source = "espn" =>
                      /\ {r \in driver_standings' : r.year = y}
                            = RowsOfDocument(y, after.data)
                      /\ {r \in driver_standings' : r.year # y}
                            = {r \in driver_standings : r.year # y}
                 /\ after.source = "setter raised" =>
                      /\ driver_standings' = driver_standings
                      /\ after.status = 500
                 /\ after.source \in {"espn", "setter raised", "fetch raised"}
      ]_vars

\* The setter raised on a document with two entries of one rank while rows of
\* that year, stored earlier by the other handler, were cached; they still are.
C28_Witness ==
    \E h \in Handlers :
        /\ handlers[h].pc = "done"
        /\ handlers[h].kind = "standings"
        /\ handlers[h].source = "setter raised"
        /\ \E g \in Handlers \ {h} :
              /\ handlers[g].pc = "done"
              /\ handlers[g].kind = "standings"
              /\ handlers[g].source = "espn"
              /\ handlers[g].year = handlers[h].year
              /\ handlers[g].at < handlers[h].at
              /\ StandingsOfYear(handlers[h].year) = RowsOfYearStoredAt(handlers[g])
              /\ StandingsOfYear(handlers[h].year) # {}

\* A document whose entries have different ranks: storing it on its own, with
\* no other request about, succeeds.
DistinctRanks(data) ==
    "standings" \in DOMAIN data =>
        \A i, j \in DOMAIN data.standings :
            data.standings[i].rank = data.standings[j].rank => i = j

\* C29: requests for one uncached year or one uncached session that are
\* processed side by side all complete successfully, and the cache holds one
\* session row per (year, race, session_type) and one set of entries per year:
\* no row twice, and no uniqueness failure from _get_or_create_session or from
\* the delete-then-insert of the setters.
C29_ConcurrentRequests ==
    /\ \A r, q \in driver_standings :
          (r.year = q.year /\ r.position = q.position) => r = q
    /\ \A s, t \in sessions :
          (s.year = t.year /\ s.race = t.race /\ s.session_type = t.session_type)
              => s = t
    /\ \A l, k \in lap_times :
          (l.session_id = k.session_id /\ l.driver = k.driver
              /\ l.lap_number = k.lap_number) => l = k
    /\ \A l, k \in telemetry_data :
          (l.session_id = k.session_id /\ l.driver = k.driver
              /\ l.lap_number = k.lap_number) => l = k
    /\ \A y \in CacheYears :
          \/ StandingsOfYear(y) = {}
          \/ \E h \in Handlers :
                /\ handlers[h].pc = "done"
                /\ handlers[h].kind = "standings"
                /\ handlers[h].source = "espn"
                /\ handlers[h].year = y
                /\ StandingsOfYear(y) = RowsOfYearStoredAt(handlers[h])
    /\ \A h \in Handlers :
          handlers[h].pc = "done" =>
              \/ handlers[h].status = 200
              \/ handlers[h].source = "fetch raised"
              \/ /\ handlers[h].kind = "standings"
                 /\ ~DistinctRanks(handlers[h].fetched)

\* Two handlers asked for the same uncached year in the same hour, both went to
\* ESPN, were given different documents, stored them one after the other and
\* both answered 200; the year's rows are those of one of the two documents.
C29_Witness ==
    \E h, g \in Handlers :
        /\ h # g
        /\ handlers[h].pc = "done" /\ handlers[g].pc = "done"
        /\ handlers[h].kind = "standings" /\ handlers[g].kind = "standings"
        /\ handlers[h].year = handlers[g].year
        /\ handlers[h].asked = handlers[g].asked
        /\ handlers[h].source = "espn" /\ handlers[g].source = "espn"
        /\ handlers[h].status = 200 /\ handlers[g].status = 200
        /\ Len(handlers[h].fetched.standings) = 1
        /\ Len(handlers[g].fetched.standings) = 2
        /\ StandingsOfYear(handlers[h].year) = RowsOfYearStoredAt(handlers[g])

\* C30: when a practice session failed to load during the fetch from FastF1
\* while the results of another session of the round were saved, a later
\* request for the round attempts that session again and does not go on
\* answering it as an empty list out of the database.
C30_FailedSessionRetried ==
    [][\A s \in PracticeSessions :
          (/\ reply # NoReply
           /\ reply.source = "fastf1"
           /\ s \in reply.failed
           /\ \E t \in PracticeSessions : reply.results[t] # {}
           /\ reply' # reply)
          => s \in reply'.attempted
      ]_vars

====
